---- MODULE Spec2Model ----
(***************************************************************************)
(* update-min-versions: after a release, dependents that are not released  *)
(* themselves get their caret ranges on minor-released packages raised to  *)
(* the new version, their package.json files are written and one git       *)
(* commit is made.  The model follows main(), updateDependents() and       *)
(* getDependentsGraph() statement by statement.                            *)
(*                                                                         *)
(* Strings the code inspects are kept structured: a version is a triple    *)
(* <<major, minor, patch>>, a range is [prefix, version], so that          *)
(* startsWith('^') is a test of the prefix and `^${newVersion}` builds a   *)
(* range with prefix "^".  A package.json is the record [name, version,    *)
(* deps]; deps maps each dependency type the file has to its declared      *)
(* name -> range map, and a type the file lacks is outside its domain.     *)
(* The text written by JSON.stringify is kept as the record it prints.     *)
(*                                                                         *)
(* main() is asynchronous: it yields at getPackages, at Promise.all over   *)
(* the writes, at git add and at git commit.  Everything between two       *)
(* yields is one action.  The writes are in flight together and settle in  *)
(* any order, each ending in success (the file holds the content) or in    *)
(* failure (the file is taken to stay as it was).                          *)
(*                                                                         *)
(* Three further parts have their own specification over their own         *)
(* variables: getDependentsGraph called on any list of records (SpecGraph), *)
(* the changed packages of a commit range (SpecChanged) and the walk of    *)
(* getTransitiveDependencies (SpecWalk).  Each specification keeps the     *)
(* variables of the other parts at their idle values.                      *)
(***************************************************************************)
EXTENDS Integers, Sequences, FiniteSets

VARIABLES
    \* update-min-versions
    disk,        \* package name -> package.json as stored on disk
    plan,        \* releasePlan.releases, the input of every run
    pc,          \* where main() is
    run,         \* number of the current run of main()
    pre,         \* what getPackages() returned at the start of this run
    packages,    \* the in-memory package.json objects, mutated in place
    updated,     \* updatedDependents (a Set, in insertion order)
    writes,      \* the fsp.writeFile calls issued by this run
    gitAdd,      \* git.add(['-u']) of this run
    gitCommit,   \* git.commit(...) of this run
    console,     \* lines printed by this run
    history,     \* how the earlier runs ended
    \* a call of getDependentsGraph on its own
    gPackages,   \* the argument: the package records, in list order
    gResult,     \* what the call produced
    gpc,         \* "call" before the call, "done" after it
    \* the changed packages of a commit range
    cListing,    \* bolt.getWorkspaces(): the packages, in listing order
    cInput,      \* git.getChangedFilesSince(commit, true): absolute paths
    cEntry,      \* the exported function that was called
    cFiles,      \* changedFiles as handed to getChangedPackagesFromChangedFiles
    cOwners,     \* the array after .map(fileNameToPackage)
    cResult,     \* the packages returned
    cpc,         \* where the call is
    \* a call of getTransitiveDependencies
    pkgName,     \* the root package
    userOpts,    \* the options; the field depth may be missing
    depGraph,    \* package -> its dependencies; a package may have no entry
    visited,     \* the Set visited, in insertion order
    queue,
    nodesUntilDepthIncrease,
    currentDepth,
    expanded,    \* the packages whose dependencies were read, in order
    walkResult,  \* the array returned
    wpc,         \* "loop", "returned" or "threw"
    \* a run of check-changesets
    kBranch,     \* BITBUCKET_BRANCH || git.getBranchName(), as characters
    kReleases,   \* releasePlan.releases, each with its number of changesets
    kChanged,    \* the packages changed since sinceRef that need a changeset
    kpc,         \* where main() is
    kExitCode,   \* the exit code of the process once it ended
    kOut,        \* what was printed
    \* a run of the changeset wrapper
    args,            \* process.argv.slice(2), each argument as characters
    gitBaseBranch,   \* what getBaseBranch() answers
    changesetConfig, \* .changeset/config.json: its baseBranch
    prePayload,      \* what pre() returned
    nonePackages,    \* the answer to the package question
    changesetResult, \* how the changeset process ended
    changesetFile,   \* the lines of the changeset file the process wrote
    effects,         \* questions, prints, writes, git calls and spawns, in order
    exitCode,        \* the exit code of the wrapper once it ended
    mpc              \* where main() is

updateVars == <<disk, plan, pc, run, pre, packages, updated, writes, gitAdd,
                gitCommit, console, history>>

graphVars == <<gPackages, gResult, gpc>>

changedVars == <<cListing, cInput, cEntry, cFiles, cOwners, cResult, cpc>>

walkVars == <<pkgName, userOpts, depGraph, visited, queue, nodesUntilDepthIncrease,
              currentDepth, expanded, walkResult, wpc>>

checkVars == <<kBranch, kReleases, kChanged, kpc, kExitCode, kOut>>

wrapperVars == <<args, gitBaseBranch, changesetConfig, prePayload, nonePackages,
                 changesetResult, changesetFile, effects, exitCode, mpc>>

vars == <<updateVars, graphVars, changedVars, walkVars, checkVars, wrapperVars>>

\* what each part of the model leaves alone
outsideUpdate == <<graphVars, changedVars, walkVars, checkVars, wrapperVars>>

outsideGraph == <<updateVars, changedVars, walkVars, checkVars, wrapperVars>>

outsideChanged == <<updateVars, graphVars, walkVars, checkVars, wrapperVars>>

outsideWalk == <<updateVars, graphVars, changedVars, checkVars, wrapperVars>>

outsideCheck == <<updateVars, graphVars, changedVars, walkVars, wrapperVars>>

outsideWrapper == <<updateVars, graphVars, changedVars, walkVars, checkVars>>

\* the state of a part that is not under study
UpdateIdle ==
    /\ disk = << >>
    /\ plan = << >>
    /\ pc = "idle"
    /\ run = 0
    /\ pre = << >>
    /\ packages = << >>
    /\ updated = << >>
    /\ writes = << >>
    /\ gitAdd = "none"
    /\ gitCommit = "none"
    /\ console = << >>
    /\ history = << >>

GraphIdle ==
    /\ gPackages = << >>
    /\ gResult = << >>
    /\ gpc = "idle"

ChangedIdle ==
    /\ cListing = << >>
    /\ cInput = << >>
    /\ cEntry = "none"
    /\ cFiles = << >>
    /\ cOwners = << >>
    /\ cResult = << >>
    /\ cpc = "idle"

WalkIdle ==
    /\ pkgName = ""
    /\ userOpts = << >>
    /\ depGraph = << >>
    /\ visited = << >>
    /\ queue = << >>
    /\ nodesUntilDepthIncrease = 0
    /\ currentDepth = 0
    /\ expanded = << >>
    /\ walkResult = << >>
    /\ wpc = "idle"

CheckIdle ==
    /\ kBranch = << >>
    /\ kReleases = << >>
    /\ kChanged = << >>
    /\ kpc = "idle"
    /\ kExitCode = 0
    /\ kOut = << >>

WrapperIdle ==
    /\ args = << >>
    /\ gitBaseBranch = << >>
    /\ changesetConfig = << >>
    /\ prePayload = << >>
    /\ nonePackages = << >>
    /\ changesetResult = << >>
    /\ changesetFile = << >>
    /\ effects = << >>
    /\ exitCode = 0
    /\ mpc = "idle"

----------------------------------------------------------------------------
(* Bounds of the exploration *)

MaxReleases == 2
MaxRuns == 2

----------------------------------------------------------------------------
(* The input domain: a workspace of three packages and the release plans   *)
(* over them.                                                              *)

PkgOrder == <<"a", "b", "c">>

PkgNames == {PkgOrder[i] : i \in 1..Len(PkgOrder)}

dependencyTypes == <<"dependencies", "devDependencies", "peerDependencies">>

DepTypeSet == {dependencyTypes[i] : i \in 1..Len(dependencyTypes)}

ReleaseTypes == {"none", "patch", "minor", "major"}

OldVersion(n) ==
    CASE n = "a" -> <<1, 0, 0>>
      [] n = "b" -> <<2, 0, 0>>
      [] OTHER   -> <<3, 0, 0>>

Bump(v, type) ==
    CASE type = "major" -> <<v[1] + 1, 0, 0>>
      [] type = "minor" -> <<v[1], v[2] + 1, 0>>
      [] type = "patch" -> <<v[1], v[2], v[3] + 1>>
      [] OTHER          -> v

Range(prefix, v) == [prefix |-> prefix, version |-> v]

\* The declarations a workspace may hold; a workspace holds any subset.
DeclUniverse ==
    { [pkg |-> "b", depType |-> "dependencies",     depName |-> "a", prefix |-> "^"],
      [pkg |-> "b", depType |-> "devDependencies",  depName |-> "a", prefix |-> "~"],
      [pkg |-> "c", depType |-> "dependencies",     depName |-> "a", prefix |-> "^"],
      [pkg |-> "c", depType |-> "peerDependencies", depName |-> "a", prefix |-> "^"],
      [pkg |-> "c", depType |-> "dependencies",     depName |-> "b", prefix |-> "^"] }

DepsOf(decls, n, t) ==
    LET mine == {d \in decls : d.pkg = n /\ d.depType = t}
    IN  [k \in {d.depName : d \in mine} |->
            LET d == CHOOSE x \in mine : x.depName = k
            IN  Range(d.prefix, OldVersion(k))]

\* A dependency type with no declaration is absent from the package.json.
Workspace(decls) ==
    [n \in PkgNames |->
        [name    |-> n,
         version |-> OldVersion(n),
         deps    |-> [t \in {d.depType : d \in {x \in decls : x.pkg = n}} |->
                         DepsOf(decls, n, t)]]]

\* A release of the plan.  Its new version is the old one bumped by its
\* type (a release of type none keeps the version); a release of type minor
\* may also be a no-op entry, whose new version is the old one.
NewVersions(n, t) ==
    {Bump(OldVersion(n), t)} \cup (IF t = "minor" THEN {OldVersion(n)} ELSE {})

Releases ==
    UNION { { [name |-> n, type |-> t, oldVersion |-> OldVersion(n), newVersion |-> v] :
                v \in NewVersions(n, t) } :
            <<n, t>> \in PkgNames \X ReleaseTypes }

\* releasePlan.releases: at most one release per package, in any order.
Plans ==
    UNION { { s \in [1..k -> Releases] :
                \A i, j \in 1..k : i # j => s[i].name # s[j].name } :
            k \in 0..MaxReleases }

----------------------------------------------------------------------------
(* Console lines *)

NoRange == Range("", <<>>)

Line(level, text, release, dep, range, count) ==
    [level |-> level, text |-> text, release |-> release, dep |-> dep,
     range |-> range, count |-> count]

----------------------------------------------------------------------------
(* getDependentsGraph *)

\* Object.entries(dependencies || {}), keys in workspace order
DeclaredOf(pj, t) == IF t \in DOMAIN pj.deps THEN pj.deps[t] ELSE << >>

KeysOf(m) == SelectSeq(PkgOrder, LAMBDA k : k \in DOMAIN m)

TypeEdges(pj, t) ==
    LET m    == DeclaredOf(pj, t)
        keys == KeysOf(m)
    IN  [i \in 1..Len(keys) |->
            [depName |-> keys[i], name |-> pj.name,
             versionRange |-> m[keys[i]], depType |-> t]]

RECURSIVE PkgEdges(_, _)
PkgEdges(pj, i) ==
    IF i > Len(dependencyTypes) THEN << >>
    ELSE TypeEdges(pj, dependencyTypes[i]) \o PkgEdges(pj, i + 1)

RECURSIVE AllEdges(_, _)
AllEdges(pkgs, i) ==
    IF i > Len(PkgOrder) THEN << >>
    ELSE PkgEdges(pkgs[PkgOrder[i]], 1) \o AllEdges(pkgs, i + 1)

\* Faulty variant: every edge is filed as a runtime dependency.
Dependency_TypeLost(e) ==
    [name |-> e.name, versionRange |-> e.versionRange, depType |-> dependencyTypes[1]]

Dependency(e) == [name |-> e.name, versionRange |-> e.versionRange, depType |-> e.depType]

getDependentsGraph(pkgs) ==
    LET all == AllEdges(pkgs, 1)
    IN  [d \in {all[i].depName : i \in 1..Len(all)} |->
            LET under == SelectSeq(all, LAMBDA e : e.depName = d)
            IN  [i \in 1..Len(under) |-> Dependency(under[i])]]

----------------------------------------------------------------------------
(* updateDependents *)

\* Faulty variant: the version test inverted (oldVersion === newVersion
\* taken for "is released").
WillBeReleased_Inverted(releasesByName, name) ==
    /\ name \in DOMAIN releasesByName
    /\ releasesByName[name].oldVersion = releasesByName[name].newVersion

\* Faulty variant: presence in the plan alone counts as released.
WillBeReleased_WheneverInPlan(releasesByName, name) == name \in DOMAIN releasesByName

\* releasesByName.get(dep.name) is a release whose version changes
WillBeReleased(releasesByName, name) ==
    /\ name \in DOMAIN releasesByName
    /\ releasesByName[name].oldVersion # releasesByName[name].newVersion

\* Faulty variant: every range is taken for a caret range.
startsWithCaret_Any(range) == range.prefix \in {"^", "~", ""}

startsWithCaret(range) == range.prefix = "^"

\* Faulty variant: the range is built from release.oldVersion.
NewRange_FromOldVersion(release) == Range("^", release.oldVersion)

NewRange(release) == Range("^", release.newVersion)

\* Faulty variant: the assignment replaces the whole section of the
\* dependent by the one new range.
SetRange_DropsOtherRanges(pkgs, name, depType, key, range) ==
    [pkgs EXCEPT ![name].deps[depType] = [k \in {key} |-> range]]

\* dependentDeps[release.name] = `^${release.newVersion}`
SetRange(pkgs, name, depType, key, range) ==
    LET m == pkgs[name].deps[depType]
    IN  [pkgs EXCEPT ![name].deps[depType] =
            [k \in DOMAIN m \cup {key} |-> IF k = key THEN range ELSE m[k]]]

\* One iteration of the loop over the dependents; st is the heap, the
\* returned list, the console and whether an error was thrown.
UpdateOne(release, dep, packagesByName, releasesByName, st) ==
    IF WillBeReleased(releasesByName, dep.name) THEN st
    ELSE IF ~startsWithCaret(dep.versionRange)
    THEN [st EXCEPT !.console = Append(@,
              Line("warn", "non-caret range", release.name, dep.name, dep.versionRange, 0))]
    ELSE IF dep.name \notin DOMAIN packagesByName
    THEN [st EXCEPT !.threw = TRUE]
    ELSE IF dep.depType \notin DOMAIN st.pkgs[packagesByName[dep.name]].deps
    THEN [st EXCEPT !.threw = TRUE]
    ELSE [st EXCEPT
            !.pkgs = SetRange(@, packagesByName[dep.name], dep.depType,
                              release.name, NewRange(release)),
            !.out = Append(@, packagesByName[dep.name]),
            !.console = Append(@,
                Line("log", "Updating", release.name, dep.name, NewRange(release), 0))]

RECURSIVE UpdateFrom(_, _, _, _, _, _)
UpdateFrom(release, dependents, i, packagesByName, releasesByName, st) ==
    IF i > Len(dependents) \/ st.threw THEN st
    ELSE UpdateFrom(release, dependents, i + 1, packagesByName, releasesByName,
                    UpdateOne(release, dependents[i], packagesByName, releasesByName, st))

updateDependents(release, dependents, packagesByName, releasesByName, pkgs, cons) ==
    UpdateFrom(release, dependents, 1, packagesByName, releasesByName,
               [pkgs |-> pkgs, out |-> << >>, console |-> cons, threw |-> FALSE])

----------------------------------------------------------------------------
(* main: the loop over the releases (lines 119-141) *)

\* Faulty variant: updatedDependents kept as an array, not a Set.
AddToSet_Array(set, x) == Append(set, x)

\* Set.prototype.add
AddToSet(set, x) ==
    IF \E i \in 1..Len(set) : set[i] = x THEN set ELSE Append(set, x)

RECURSIVE AddAll(_, _, _)
AddAll(set, list, i) ==
    IF i > Len(list) THEN set ELSE AddAll(AddToSet(set, list[i]), list, i + 1)

\* Faulty variant: every release that is not of type none propagates.
TriggersUpdate_AnyBump(release) == release.type # "none"

\* release.type === 'minor'
TriggersUpdate(release) == release.type = "minor"

\* Faulty variant: a release without dependents ends the run with an error.
OnNoDependents_Throws(release, st) == [st EXCEPT !.threw = TRUE]

\* console.error(...); continue
OnNoDependents(release, st) ==
    [st EXCEPT !.console = Append(@,
        Line("error", "Cannot find package marked for release",
             release.name, "", NoRange, 0))]

ReleaseStep(release, graph, packagesByName, releasesByName, st) ==
    IF ~TriggersUpdate(release) THEN st
    ELSE IF release.name \notin DOMAIN graph
    THEN OnNoDependents(release, st)
    ELSE LET r == updateDependents(release, graph[release.name], packagesByName,
                                   releasesByName, st.pkgs, st.console)
         IN  [pkgs    |-> r.pkgs,
              updated |-> IF r.threw THEN st.updated ELSE AddAll(st.updated, r.out, 1),
              console |-> r.console,
              threw   |-> r.threw]

RECURSIVE ReleaseLoop(_, _, _, _, _, _)
ReleaseLoop(releases, i, graph, packagesByName, releasesByName, st) ==
    IF i > Len(releases) \/ st.threw THEN st
    ELSE ReleaseLoop(releases, i + 1, graph, packagesByName, releasesByName,
                     ReleaseStep(releases[i], graph, packagesByName, releasesByName, st))

\* new Map(packages.map(x => [x.packageJson.name, x])): name -> object
PackagesByName(pkgs) == [n \in {pkgs[k].name : k \in DOMAIN pkgs} |->
                            CHOOSE k \in DOMAIN pkgs : pkgs[k].name = n]

\* new Map(releasePlan.releases.map(x => [x.name, x])): the last entry wins
ReleasesByName(releases) ==
    [n \in {releases[i].name : i \in 1..Len(releases)} |->
        LET last == CHOOSE i \in 1..Len(releases) :
                        /\ releases[i].name = n
                        /\ \A j \in 1..Len(releases) : releases[j].name = n => j <= i
        IN  releases[last]]

Propagated(pkgs, releases) ==
    ReleaseLoop(releases, 1, getDependentsGraph(pkgs), PackagesByName(pkgs),
                ReleasesByName(releases),
                [pkgs |-> pkgs, updated |-> << >>, console |-> << >>, threw |-> FALSE])

\* [...updatedDependents].map(pkg => fsp.writeFile(path, JSON.stringify(...)))
IssuedWrites(pkgs, upd) ==
    [i \in 1..Len(upd) |->
        [pkg |-> upd[i], content |-> pkgs[upd[i]], status |-> "pending"]]

----------------------------------------------------------------------------
(* The run of main() as a state machine *)

Init ==
    /\ disk \in {Workspace(d) : d \in SUBSET DeclUniverse}
    /\ plan \in Plans
    /\ pc = "start"
    /\ run = 1
    /\ pre = disk
    /\ packages = disk
    /\ updated = << >>
    /\ writes = << >>
    /\ gitAdd = "none"
    /\ gitCommit = "none"
    /\ console = << >>
    /\ history = << >>
    /\ GraphIdle
    /\ ChangedIdle
    /\ WalkIdle
    /\ CheckIdle
    /\ WrapperIdle

\* const { packages } = await getPackages(cwd)
GetPackages ==
    /\ pc = "start"
    /\ packages' = disk
    /\ pre' = disk
    /\ pc' = "loaded"
    /\ UNCHANGED <<disk, plan, run, updated, writes, gitAdd, gitCommit, console, history>>
    /\ UNCHANGED outsideUpdate

\* lines 119-151, which run without yielding: the graph, the maps, the loop
\* over the releases and the issue of every write
Propagate ==
    /\ pc = "loaded"
    /\ LET st == Propagated(packages, plan)
       IN  /\ packages' = st.pkgs
           /\ console' = st.console
           /\ updated' = st.updated
           /\ IF st.threw
              THEN pc' = "failed" /\ writes' = << >>
              ELSE pc' = "writing" /\ writes' = IssuedWrites(st.pkgs, st.updated)
    /\ UNCHANGED <<disk, plan, run, pre, gitAdd, gitCommit, history>>
    /\ UNCHANGED outsideUpdate

\* Faulty variant: the rejection of a write is swallowed.
AfterRejection_Swallowed(at) == at

\* the await of Promise.all throws as soon as one write rejects
AfterRejection(at) == "failed"

\* Faulty variant: git add and commit whatever the number of updates.
ShouldCommit_Always(upd) == TRUE

\* updatedDependents.size > 0
ShouldCommit(upd) == Len(upd) > 0

\* Faulty variant: the writes are not awaited.
WritesSettled_NotAwaited(ws) == TRUE

\* Promise.all resolves
WritesSettled(ws) == \A i \in 1..Len(ws) : ws[i].status = "ok"

\* a writeFile call succeeds: the file holds the content it was given
WriteOk(i) ==
    /\ pc \in {"writing", "failed"}
    /\ writes[i].status = "pending"
    /\ writes' = [writes EXCEPT ![i].status = "ok"]
    /\ disk' = [disk EXCEPT ![writes[i].pkg] = writes[i].content]
    /\ UNCHANGED <<plan, pc, run, pre, packages, updated, gitAdd, gitCommit, console, history>>
    /\ UNCHANGED outsideUpdate

\* a writeFile call fails: Promise.all rejects and main() throws
WriteFail(i) ==
    /\ pc \in {"writing", "failed"}
    /\ writes[i].status = "pending"
    /\ writes' = [writes EXCEPT ![i].status = "failed"]
    /\ pc' = AfterRejection(pc)
    /\ UNCHANGED <<disk, plan, run, pre, packages, updated, gitAdd, gitCommit, console, history>>
    /\ UNCHANGED outsideUpdate

\* lines 153-159: the summary line, then git add when something was updated
AfterWrites ==
    /\ pc = "writing"
    /\ WritesSettled(writes)
    /\ console' = Append(console,
                         Line("log", "Updated version ranges", "", "", NoRange, Len(updated)))
    /\ IF ShouldCommit(updated)
       THEN pc' = "adding" /\ gitAdd' = "pending"
       ELSE pc' = "done" /\ gitAdd' = gitAdd
    /\ UNCHANGED <<disk, plan, run, pre, packages, updated, writes, gitCommit, history>>
    /\ UNCHANGED outsideUpdate

\* git add resolves, git commit is called
GitAddOk ==
    /\ pc = "adding"
    /\ gitAdd' = "ok"
    /\ gitCommit' = "pending"
    /\ pc' = "committing"
    /\ UNCHANGED <<disk, plan, run, pre, packages, updated, writes, console, history>>
    /\ UNCHANGED outsideUpdate

GitAddFail ==
    /\ pc = "adding"
    /\ gitAdd' = "failed"
    /\ pc' = "failed"
    /\ UNCHANGED <<disk, plan, run, pre, packages, updated, writes, gitCommit, console, history>>
    /\ UNCHANGED outsideUpdate

GitCommitOk ==
    /\ pc = "committing"
    /\ gitCommit' = "ok"
    /\ pc' = "done"
    /\ UNCHANGED <<disk, plan, run, pre, packages, updated, writes, gitAdd, console, history>>
    /\ UNCHANGED outsideUpdate

GitCommitFail ==
    /\ pc = "committing"
    /\ gitCommit' = "failed"
    /\ pc' = "failed"
    /\ UNCHANGED <<disk, plan, run, pre, packages, updated, writes, gitAdd, console, history>>
    /\ UNCHANGED outsideUpdate

\* the script is run again with the same release-info.json
Rerun ==
    /\ pc \in {"done", "failed"}
    /\ run < MaxRuns
    /\ history' = Append(history, [result |-> pc])
    /\ run' = run + 1
    /\ pc' = "start"
    /\ pre' = disk
    /\ packages' = disk
    /\ updated' = << >>
    /\ writes' = << >>
    /\ gitAdd' = "none"
    /\ gitCommit' = "none"
    /\ console' = << >>
    /\ UNCHANGED <<disk, plan>>
    /\ UNCHANGED outsideUpdate

Next ==
    \/ GetPackages
    \/ Propagate
    \/ \E i \in 1..Len(writes) : WriteOk(i)
    \/ \E i \in 1..Len(writes) : WriteFail(i)
    \/ AfterWrites
    \/ GitAddOk
    \/ GitAddFail
    \/ GitCommitOk
    \/ GitCommitFail
    \/ Rerun

Spec == Init /\ [][Next]_vars

----------------------------------------------------------------------------
(* Vocabulary of the properties, read off the inputs of the run: the plan  *)
(* and the package set as getPackages() returned it.                       *)

Ran == pc \notin {"start", "loaded"}

InPlan(P) == \E i \in 1..Len(plan) : plan[i].name = P

ReleasedWithChange(P) ==
    \E i \in 1..Len(plan) : plan[i].name = P /\ plan[i].oldVersion # plan[i].newVersion

Declares(pj, t, D) == t \in DOMAIN pj.deps /\ D \in DOMAIN pj.deps[t]

\* the edges <<release index, dependency type>> of P onto a minor release
MinorEdges(P) ==
    { e \in (1..Len(plan)) \X DepTypeSet :
        plan[e[1]].type = "minor" /\ Declares(pre[P], e[2], plan[e[1]].name) }

DeclaredRange(P, e) == pre[P].deps[e[2]][plan[e[1]].name]

CurrentRange(P, e) == packages[P].deps[e[2]][plan[e[1]].name]

CaretEdges(P) == {e \in MinorEdges(P) : DeclaredRange(P, e).prefix = "^"}

\* the edges the propagator has to rewrite
Qualifying(P) == IF ReleasedWithChange(P) THEN {} ELSE CaretEdges(P)

Target(e) == [prefix |-> "^", version |-> plan[e[1]].newVersion]

WritesOf(P) == {i \in 1..Len(writes) : writes[i].pkg = P}

WarningsFor(P, e) ==
    { k \in 1..Len(console) :
        /\ console[k].level = "warn"
        /\ console[k].release = plan[e[1]].name
        /\ console[k].dep = P
        /\ console[k].range = DeclaredRange(P, e) }

----------------------------------------------------------------------------
(* Properties of update-min-versions *)

\* C1: once the run has completed, every caret range that a package P, not
\* released with a version change, declared on a minor release D is
\* '^' + D.newVersion: in memory, in the content written to P's
\* package.json, and in the file.
C1_CaretRangesRaised ==
    pc = "done" =>
        \A P \in PkgNames : \A e \in CaretEdges(P) :
            ~ReleasedWithChange(P) =>
                /\ CurrentRange(P, e) = Target(e)
                /\ \E i \in WritesOf(P) :
                      writes[i].content.deps[e[2]][plan[e[1]].name] = Target(e)
                /\ disk[P].deps[e[2]][plan[e[1]].name] = Target(e)

\* a completed first run that raised a range to a new version
C1_Witness ==
    /\ pc = "done"
    /\ run = 1
    /\ \E P \in PkgNames : \E e \in CaretEdges(P) :
          /\ ~ReleasedWithChange(P)
          /\ Target(e) # DeclaredRange(P, e)
          /\ disk[P].deps[e[2]][plan[e[1]].name] = Target(e)

\* C2: a package that the plan releases with oldVersion # newVersion keeps
\* all of its ranges and its package.json is never written, in any state of
\* the run.
C2_ReleasedDependentsUntouched ==
    \A P \in PkgNames :
        ReleasedWithChange(P) =>
            /\ packages[P] = pre[P]
            /\ WritesOf(P) = {}
            /\ disk[P] = pre[P]

\* a completed run in which a released package has a caret range on a minor
\* release, and another package was updated
C2_Witness ==
    /\ pc = "done"
    /\ Len(writes) > 0
    /\ \E P \in PkgNames : ReleasedWithChange(P) /\ CaretEdges(P) # {}

\* C3: in a run whose plan has no release of type minor, no package record
\* is changed and no package.json is written.
C3_OnlyMinorPropagates ==
    (\A i \in 1..Len(plan) : plan[i].type # "minor") =>
        /\ packages = pre
        /\ disk = pre
        /\ writes = << >>

\* a completed run over a plan with patch, major or none releases of a
\* package that others depend on with a caret range
C3_Witness ==
    /\ pc = "done"
    /\ \A i \in 1..Len(plan) : plan[i].type # "minor"
    /\ \E i \in 1..Len(plan) : \E P \in PkgNames : \E t \in DepTypeSet :
          /\ plan[i].oldVersion # plan[i].newVersion
          /\ ~InPlan(P)
          /\ Declares(pre[P], t, plan[i].name)
          /\ pre[P].deps[t][plan[i].name].prefix = "^"

\* C4: whenever git add has been invoked every package.json write of the
\* run has completed, and whenever git commit has been invoked git add has
\* completed.
C4_WritesThenAddThenCommit ==
    /\ gitAdd # "none" =>
          /\ Len(writes) > 0
          /\ \A i \in 1..Len(writes) : writes[i].status = "ok"
    /\ gitCommit # "none" => gitAdd = "ok"

\* two writes were in flight together and the commit was reached
C4_Witness ==
    /\ gitCommit = "ok"
    /\ Len(writes) >= 2

\* C5: a package with one or more edges to rewrite is written exactly once
\* in the run, the written content is the package with every one of its
\* ranges rewritten, and a completed run has made its one commit.
C5_OneWriteOneCommit ==
    (Ran /\ pc # "failed") =>
        /\ \A P \in PkgNames :
              /\ Qualifying(P) # {} =>
                    /\ Cardinality(WritesOf(P)) = 1
                    /\ \A i \in WritesOf(P) :
                          /\ writes[i].content = packages[P]
                          /\ \A e \in Qualifying(P) :
                                writes[i].content.deps[e[2]][plan[e[1]].name] = Target(e)
              /\ Qualifying(P) = {} => WritesOf(P) = {}
        /\ (pc = "done" /\ \E P \in PkgNames : Qualifying(P) # {}) => gitCommit = "ok"

\* a completed run in which one package qualified through two releases and
\* through two dependency types of one release
C5_Witness ==
    /\ pc = "done"
    /\ \E P \in PkgNames :
          /\ \E e, f \in Qualifying(P) : e[1] # f[1]
          /\ \E e, f \in Qualifying(P) : e[1] = f[1] /\ e[2] # f[2]
          /\ \E e \in Qualifying(P) : Target(e) # DeclaredRange(P, e)

\* C6: a run with no edge to rewrite issues no write, no git add and no git
\* commit, does not fail, and its next step completes it.
C6_NothingToUpdate ==
    (Ran /\ \A P \in PkgNames : Qualifying(P) = {}) =>
        /\ writes = << >>
        /\ gitAdd = "none"
        /\ gitCommit = "none"
        /\ pc \in {"writing", "done"}
        /\ pc = "writing" => ENABLED AfterWrites

\* a completed run whose plan has a minor release but no edge to rewrite
C6_Witness ==
    /\ pc = "done"
    /\ \E i \in 1..Len(plan) : plan[i].type = "minor"
    /\ \E P \in PkgNames : MinorEdges(P) # {}
    /\ \A P \in PkgNames : Qualifying(P) = {}

\* C7 as claimed: a second run with the same plan, after a first run that
\* completed, writes no package.json and makes no commit.
C7_SecondRunIsNoOp ==
    (run = 2 /\ history[1].result = "done") =>
        /\ writes = << >>
        /\ gitAdd = "none"
        /\ gitCommit = "none"

\* C8 as claimed: every non-caret edge onto a minor release keeps its range
\* and has one warning line, whether or not the dependent is in the plan.
C8_WarningForEveryNonCaretEdge ==
    Ran =>
        \A P \in PkgNames : \A e \in MinorEdges(P) \ CaretEdges(P) :
            /\ CurrentRange(P, e) = DeclaredRange(P, e)
            /\ Cardinality(WarningsFor(P, e)) = 1

\* C8 amended: every non-caret edge onto a minor release keeps its range;
\* it has one warning line when the dependent is not released with a version
\* change, and none when it is.
C8_WarningUnlessReleased ==
    Ran =>
        \A P \in PkgNames : \A e \in MinorEdges(P) \ CaretEdges(P) :
            /\ CurrentRange(P, e) = DeclaredRange(P, e)
            /\ disk[P].deps[e[2]][plan[e[1]].name] = DeclaredRange(P, e)
            /\ Cardinality(WarningsFor(P, e)) = IF ReleasedWithChange(P) THEN 0 ELSE 1

\* a completed run that warned about a non-caret edge of a package that is
\* in the plan as a no-op entry, and rewrote a caret edge of the same package
C8_Witness ==
    /\ pc = "done"
    /\ \E P \in PkgNames :
          /\ InPlan(P)
          /\ \E e \in MinorEdges(P) \ CaretEdges(P) : Cardinality(WarningsFor(P, e)) = 1
          /\ \E e \in CaretEdges(P) : CurrentRange(P, e) # DeclaredRange(P, e)

\* C9: once a package.json write has failed the run has failed, and git add
\* and git commit are never invoked in it.
C9_FailedWriteMeansNoCommit ==
    (\E i \in 1..Len(writes) : writes[i].status = "failed") =>
        /\ pc = "failed"
        /\ gitAdd = "none"
        /\ gitCommit = "none"

\* a failed run that left one rewritten package.json on disk
C9_Witness ==
    /\ pc = "failed"
    /\ \E i, j \in 1..Len(writes) :
          /\ writes[i].status = "failed"
          /\ writes[j].status = "ok"
          /\ disk[writes[j].pkg] # pre[writes[j].pkg]
          /\ disk[writes[i].pkg] = pre[writes[i].pkg]

\* the releases of type minor whose package no package of the set declares
NoDependents(i) ==
    /\ plan[i].type = "minor"
    /\ \A P \in PkgNames : \A t \in DepTypeSet : ~Declares(pre[P], t, plan[i].name)

ErrorsFor(i) ==
    { k \in 1..Len(console) :
        console[k].level = "error" /\ console[k].release = plan[i].name }

\* C11: a minor release without an entry in the dependents graph is
\* reported with one error line and does not fail the run; every edge to
\* rewrite of the other releases, before and after it in the plan, is
\* rewritten and its package gets its write.
C11_ReleaseWithoutDependentsSkipped ==
    (Ran /\ \E i \in 1..Len(plan) : NoDependents(i)) =>
        /\ \A i \in 1..Len(plan) :
              Cardinality(ErrorsFor(i)) = IF NoDependents(i) THEN 1 ELSE 0
        /\ ~(pc = "failed" /\ writes = << >>)
        /\ \A P \in PkgNames : \A e \in Qualifying(P) :
              /\ CurrentRange(P, e) = Target(e)
              /\ \E w \in WritesOf(P) :
                    writes[w].content.deps[e[2]][plan[e[1]].name] = Target(e)

\* a completed run whose plan has a minor release without dependents
\* followed by a minor release whose dependent was rewritten
C11_Witness ==
    /\ pc = "done"
    /\ \E i, j \in 1..Len(plan) :
          /\ i < j
          /\ NoDependents(i)
          /\ \E P \in PkgNames : \E e \in Qualifying(P) :
                /\ e[1] = j
                /\ Target(e) # DeclaredRange(P, e)
                /\ disk[P].deps[e[2]][plan[j].name] = Target(e)

NoOpEntry(P) ==
    \E i \in 1..Len(plan) : plan[i].name = P /\ plan[i].oldVersion = plan[i].newVersion

\* C29: once the run has completed, a package that is in the plan with
\* oldVersion = newVersion, whatever the type of its entry, has every caret
\* range it declared on a minor release rewritten to '^' + newVersion, and
\* its package.json is written with that range.
C29_NoOpEntryIsUpdatedLikeAnUnreleasedPackage ==
    pc = "done" =>
        \A P \in PkgNames : \A i \in 1..Len(plan) :
            (plan[i].name = P /\ plan[i].oldVersion = plan[i].newVersion) =>
                \A e \in CaretEdges(P) :
                    /\ CurrentRange(P, e) = Target(e)
                    /\ WritesOf(P) # {}
                    /\ \A w \in WritesOf(P) :
                          writes[w].content.deps[e[2]][plan[e[1]].name] = Target(e)
                    /\ disk[P].deps[e[2]][plan[e[1]].name] = Target(e)

\* a completed first run whose plan holds a no-op entry of a type other than
\* none for a package with a caret range on a minor release
C29_Witness ==
    /\ pc = "done"
    /\ run = 1
    /\ \E P \in PkgNames : \E i \in 1..Len(plan) : \E e \in CaretEdges(P) :
          /\ plan[i].name = P
          /\ plan[i].type # "none"
          /\ plan[i].oldVersion = plan[i].newVersion
          /\ Target(e) # DeclaredRange(P, e)
          /\ disk[P].deps[e[2]][plan[e[1]].name] = Target(e)

MinorRelease(D) == \E i \in 1..Len(plan) : plan[i].name = D /\ plan[i].type = "minor"

\* the record r differs from the record r0 in nothing but ranges whose key
\* is the name of a minor release
OnlyMinorRangesDiffer(r, r0) ==
    /\ r.name = r0.name
    /\ r.version = r0.version
    /\ DOMAIN r.deps = DOMAIN r0.deps
    /\ \A t \in DOMAIN r0.deps :
        /\ DOMAIN r.deps[t] = DOMAIN r0.deps[t]
        /\ \A D \in DOMAIN r0.deps[t] :
              r.deps[t][D] # r0.deps[t][D] => MinorRelease(D)

\* C30: in every state of a run, a package record in memory and on disk
\* differs from the one loaded only in ranges whose key is the name of a
\* release of type minor; a package with no qualifying edge keeps its record
\* and its file; only packages with a qualifying edge are written.
C30_OnlyRangesOnMinorReleasesChange ==
    \A P \in PkgNames :
        /\ OnlyMinorRangesDiffer(packages[P], pre[P])
        /\ OnlyMinorRangesDiffer(disk[P], pre[P])
        /\ \A w \in WritesOf(P) : OnlyMinorRangesDiffer(writes[w].content, pre[P])
        /\ Qualifying(P) = {} =>
              /\ packages[P] = pre[P]
              /\ disk[P] = pre[P]
              /\ WritesOf(P) = {}

\* a completed run that rewrote a range of a package which also has a range
\* on a package released with another type, while a third package has no
\* qualifying edge
C30_Witness ==
    /\ pc = "done"
    /\ Len(writes) = 1
    /\ \E P \in PkgNames : \E e \in Qualifying(P) : \E t \in DepTypeSet :
        \E i \in 1..Len(plan) :
          /\ disk[P].deps[e[2]][plan[e[1]].name] = Target(e)
          /\ Target(e) # DeclaredRange(P, e)
          /\ plan[i].type \in {"patch", "major"}
          /\ Declares(pre[P], t, plan[i].name)
          /\ disk[P].deps[t][plan[i].name] = pre[P].deps[t][plan[i].name]
    /\ \E Q \in PkgNames : Qualifying(Q) = {} /\ DOMAIN pre[Q].deps # {}

----------------------------------------------------------------------------
(* getDependentsGraph called on its own, on any list of package records.   *)
(* A record is [dir, packageJson]; the list is kept in the slots of        *)
(* PkgOrder, and the name inside a package.json need not be the slot's: it *)
(* may be any name, the name of another record, or missing (undefined).    *)
(* A record may also come without its packageJson.                         *)

Undefined == "undefined"

GraphRecords(decls, names, bare) ==
    [s \in PkgNames |->
        IF s \in bare THEN [dir |-> s]
        ELSE [dir |-> s,
              packageJson |-> [Workspace(decls)[s] EXCEPT !.name = names[s]]]]

GraphInputs ==
    { GraphRecords(d, nm, bare) :
        d \in SUBSET DeclUniverse,
        nm \in [PkgNames -> PkgNames \cup {Undefined}],
        bare \in SUBSET PkgNames }

HasPackageJson(p) == "packageJson" \in DOMAIN p

\* Faulty variant: the records are validated and one without a name is
\* rejected.
GraphCall_Validating(list) ==
    IF \E s \in DOMAIN list :
          ~HasPackageJson(list[s]) \/ list[s].packageJson.name = Undefined
    THEN [threw |-> TRUE, graph |-> << >>]
    ELSE [threw |-> FALSE,
          graph |-> getDependentsGraph([s \in DOMAIN list |-> list[s].packageJson])]

\* The only expression of getDependentsGraph that can throw is the read
\* pkg.packageJson[depType], when pkg.packageJson is undefined; the name is
\* copied into the edge without being looked at.
GraphCall(list) ==
    IF \E s \in DOMAIN list : ~HasPackageJson(list[s])
    THEN [threw |-> TRUE, graph |-> << >>]
    ELSE [threw |-> FALSE,
          graph |-> getDependentsGraph([s \in DOMAIN list |-> list[s].packageJson])]

InitGraph ==
    /\ gPackages \in GraphInputs
    /\ gResult = << >>
    /\ gpc = "call"
    /\ UpdateIdle
    /\ ChangedIdle
    /\ WalkIdle
    /\ CheckIdle
    /\ WrapperIdle

BuildGraph ==
    /\ gpc = "call"
    /\ gResult' = GraphCall(gPackages)
    /\ gpc' = "done"
    /\ UNCHANGED gPackages
    /\ UNCHANGED outsideGraph

NextGraph == BuildGraph

SpecGraph == InitGraph /\ [][NextGraph]_vars

SlotIndex(s) == CHOOSE i \in 1..Len(PkgOrder) : PkgOrder[i] = s

\* the declarations <<record, dependency type>> of d made by the first k
\* records of the list
DeclaringUpTo(d, k) ==
    { x \in PkgNames \X DepTypeSet :
        /\ SlotIndex(x[1]) <= k
        /\ HasPackageJson(gPackages[x[1]])
        /\ Declares(gPackages[x[1]].packageJson, x[2], d) }

ExpectedEdge(x, d) ==
    [name         |-> gPackages[x[1]].packageJson.name,
     versionRange |-> gPackages[x[1]].packageJson.deps[x[2]][d],
     depType      |-> x[2]]

\* C12: the graph has a key for exactly the declared names; under key d the
\* first edges are, for every k, the edges of the declarations of d made by
\* the first k packages of the list, each as often as it is declared, and
\* there is no further edge; the argument is left as it was.
C12_OneEdgePerDeclarationInListOrder ==
    (gpc = "done" /\ ~gResult.threw) =>
        /\ DOMAIN gResult.graph =
              {d \in PkgNames : DeclaringUpTo(d, Len(PkgOrder)) # {}}
        /\ \A d \in DOMAIN gResult.graph :
              /\ Len(gResult.graph[d]) = Cardinality(DeclaringUpTo(d, Len(PkgOrder)))
              /\ \A k \in 0..Len(PkgOrder) :
                    LET upTo == DeclaringUpTo(d, k)
                        n    == Cardinality(upTo)
                    IN  \A x \in upTo :
                           Cardinality({i \in 1..n :
                               gResult.graph[d][i] = ExpectedEdge(x, d)})
                           = Cardinality({y \in upTo :
                               ExpectedEdge(y, d) = ExpectedEdge(x, d)})

\* a graph with four edges under one key, two packages declaring it under
\* two dependency types each, listed against the order of their names
C12_Witness ==
    /\ gpc = "done"
    /\ ~gResult.threw
    /\ "a" \in DOMAIN gResult.graph
    /\ \A s \in {"b", "c"} :
          Cardinality({x \in DeclaringUpTo("a", Len(PkgOrder)) : x[1] = s}) > 1
    /\ gPackages["b"].packageJson.name = "c"
    /\ gPackages["c"].packageJson.name = "b"
    /\ gResult.graph["a"][1].name = "c"

LacksName(p) == ~HasPackageJson(p) \/ p.packageJson.name = Undefined

\* C13 as stated: the call fails exactly when some record lacks a name.
C13_FailsIffSomeRecordLacksName ==
    gpc = "done" => (gResult.threw <=> \E s \in PkgNames : LacksName(gPackages[s]))

\* C13, amended: the call fails exactly when some record comes without its
\* packageJson; a package.json without a name is not rejected, and each of
\* its declarations becomes an edge whose name is undefined.
C13_FailsOnlyWithoutPackageJson ==
    gpc = "done" =>
        /\ gResult.threw <=> \E s \in PkgNames : ~HasPackageJson(gPackages[s])
        /\ ~gResult.threw =>
              \A d \in PkgNames : \A x \in DeclaringUpTo(d, Len(PkgOrder)) :
                  gPackages[x[1]].packageJson.name = Undefined =>
                      \E i \in 1..Len(gResult.graph[d]) :
                          /\ gResult.graph[d][i].name = Undefined
                          /\ gResult.graph[d][i].depType = x[2]

\* a call that returned a graph with an edge of an unnamed package
C13_Witness ==
    /\ gpc = "done"
    /\ ~gResult.threw
    /\ \E s \in PkgNames : gPackages[s].packageJson.name = Undefined
    /\ \E d \in DOMAIN gResult.graph : \E i \in 1..Len(gResult.graph[d]) :
          gResult.graph[d][i].name = Undefined

----------------------------------------------------------------------------
(* The changed packages of a commit range (getChangedPackagesSinceCommit,  *)
(* getChangedPackagesWithMandatoryChangesetSinceCommit and the resolver    *)
(* getChangedPackagesFromChangedFiles they share).  The code looks into    *)
(* the text of the paths, so a path is the sequence of its characters.     *)

MaxFiles == 3

startsWith(s, p) == Len(p) <= Len(s) /\ SubSeq(s, 1, Len(p)) = p

endsWith(s, p) == Len(p) <= Len(s) /\ SubSeq(s, Len(s) - Len(p) + 1, Len(s)) = p

\* p is in s from position i on
OccursAt(s, p, i) == i + Len(p) <= Len(s) + 1 /\ SubSeq(s, i, i + Len(p) - 1) = p

sep == <<"/">>

bundleSizeRatchet == <<"b", "u", "n", "d", "l", "e", "-", "s", "i", "z", "e", "-", "r", "a", "t", "c", "h", "e", "t", ".", "j", "s", "o", "n">>

packageJsonName == <<"p", "a", "c", "k", "a", "g", "e", ".", "j", "s", "o", "n">>

tsconfigJsonName == <<"t", "s", "c", "o", "n", "f", "i", "g", ".", "j", "s", "o", "n">>

definitelyNeedChangeset == {packageJsonName, tsconfigJsonName}

SrcSegment == <<"/", "s", "r", "c", "/">>

TestsWord == <<"_", "_", "t", "e", "s", "t", "s", "_", "_">>

ExamplesWord == <<"e", "x", "a", "m", "p", "l", "e", "s">>

TestWord == <<"t", "e", "s", "t">>

TsWord == <<"t", "s">>

JsWord == <<"j", "s">>

XWord == <<"x">>

\* The workspace: package a, package a-b beside it, package n inside a.
DirA == <<"/", "p", "/", "a">>

DirAB == DirA \o <<"-", "b">>

DirN == DirA \o <<"/", "n">>

WorkspacePackages ==
    { [name |-> "a", dir |-> DirA],
      [name |-> "a-b", dir |-> DirAB],
      [name |-> "n", dir |-> DirN] }

\* bolt.getWorkspaces() lists the packages in any order
Listings ==
    { l \in [1..Cardinality(WorkspacePackages) -> WorkspacePackages] :
        \A i, j \in DOMAIN l : i # j => l[i] # l[j] }

\* The files a commit range may have changed.
ChangedFileUniverse ==
    { DirA \o <<"/", "s", "r", "c", "/", "i", ".", "t", "s">>,
      DirA \o sep \o bundleSizeRatchet,
      DirA \o sep \o packageJsonName,
      DirA \o <<"/", "s", "r", "c", "/", "_", "_", "t", "e", "s", "t", "s", "_", "_", "/", "p", "a", "c", "k", "a", "g", "e", ".", "j", "s", "o", "n">>,
      DirA \o <<"/", "s", "r", "c", "/", "l", "a", "t", "e", "s", "t", ".", "t", "s">>,
      DirA \o <<"/", "s", "r", "c", "/", "i", ".", "t", "e", "s", "t", ".", "t", "s">>,
      DirA \o <<"/", "d", "o", "c", "s", "/", "i", ".", "t", "s">>,
      DirAB \o <<"/", "s", "r", "c", "/", "i", ".", "t", "s">>,
      DirN \o <<"/", "s", "r", "c", "/", "i", ".", "t", "s">>,
      <<"/", "p", "/", "R", "E", "A", "D", "M", "E", ".", "m", "d">> }

ChangedFileLists ==
    UNION { [1..k -> ChangedFileUniverse] : k \in 0..MaxFiles }

\* new RegExp('^.*/src/.*')
isInSrcFileRegex(f) == \E i \in 1..Len(f) : OccursAt(f, SrcSegment, i)

\* new RegExp('^.*/src/.*__tests__.*')
isInTestDirRegex(f) ==
    \E i \in 1..Len(f) :
        /\ OccursAt(f, SrcSegment, i)
        /\ \E j \in (i + Len(SrcSegment))..Len(f) : OccursAt(f, TestsWord, j)

\* new RegExp('.*.(examples|test).(ts|js)x?$'): the pattern is not anchored
\* at its start and each of its dots stands for any one character, so it
\* matches a text that ends with one character, examples or test, one
\* character, ts or js, and an optional x.
isTestFileRegex(f) ==
    \E w \in {ExamplesWord, TestWord}, e \in {TsWord, JsWord}, x \in {<< >>, XWord} :
        LET at == Len(f) - (Len(w) + Len(sep) + Len(e) + Len(x)) + 1
        IN  /\ at > Len(sep)
            /\ OccursAt(f, w, at)
            /\ OccursAt(f, e, at + Len(w) + Len(sep))
            /\ endsWith(f, x)

\* the callback of the filter of getChangedPackagesWithMandatoryChangesetSinceCommit
needsChangeset(f) ==
    IF isInTestDirRegex(f) \/ isTestFileRegex(f) THEN FALSE
    ELSE IF (\E pattern \in definitelyNeedChangeset : endsWith(f, pattern))
            \/ isInSrcFileRegex(f)
    THEN TRUE
    ELSE FALSE

\* Faulty variant: the directory alone is taken for the prefix.
OwnsFile_NaivePrefix(pkg, fileName) == startsWith(fileName, pkg.dir)

\* fileName.startsWith(pkg.dir + path.sep)
OwnsFile(pkg, fileName) == startsWith(fileName, pkg.dir \o sep)

\* allPackages.find(...): the first package of the listing that owns the
\* file, undefined when there is none
fileNameToPackage(listing, fileName) ==
    LET hits == SelectSeq(listing, LAMBDA pkg : OwnsFile(pkg, fileName))
    IN  IF hits = << >> THEN Undefined ELSE hits[1].name

notRatchet(fileName) == ~endsWith(fileName, bundleSizeRatchet)

isDefined(x) == x # Undefined

\* Faulty variant: nothing is taken for a repetition.
IsFirstOccurrence_Always(pkgs, idx) == TRUE

\* packages.indexOf(pkg) === idx
IsFirstOccurrence(pkgs, idx) == \A j \in 1..(idx - 1) : pkgs[j] # pkgs[idx]

RECURSIVE UniqueFrom(_, _)
UniqueFrom(pkgs, idx) ==
    IF idx > Len(pkgs) THEN << >>
    ELSE (IF IsFirstOccurrence(pkgs, idx) THEN <<pkgs[idx]>> ELSE << >>)
         \o UniqueFrom(pkgs, idx + 1)

\* .filter(not ratchet).map(fileNameToPackage)
MappedOwners(listing, changedFiles) ==
    LET kept == SelectSeq(changedFiles, notRatchet)
    IN  [i \in 1..Len(kept) |-> fileNameToPackage(listing, kept[i])]

InitChanged ==
    /\ cListing \in Listings
    /\ cInput \in ChangedFileLists
    /\ cEntry \in {"getChangedPackagesSinceCommit",
                   "getChangedPackagesWithMandatoryChangesetSinceCommit"}
    /\ cFiles = << >>
    /\ cOwners = << >>
    /\ cResult = << >>
    /\ cpc = "start"
    /\ UpdateIdle
    /\ GraphIdle
    /\ WalkIdle
    /\ CheckIdle
    /\ WrapperIdle

\* getChangedPackagesSinceCommit: the changed files go to the resolver as
\* git gave them
ChangedFilesSince ==
    /\ cpc = "start"
    /\ cEntry = "getChangedPackagesSinceCommit"
    /\ cFiles' = cInput
    /\ cpc' = "resolving"
    /\ UNCHANGED <<cListing, cInput, cEntry, cOwners, cResult>>
    /\ UNCHANGED outsideChanged

\* getChangedPackagesWithMandatoryChangesetSinceCommit: the changed files
\* are filtered first
MandatoryFilter ==
    /\ cpc = "start"
    /\ cEntry = "getChangedPackagesWithMandatoryChangesetSinceCommit"
    /\ cFiles' = SelectSeq(cInput, needsChangeset)
    /\ cpc' = "resolving"
    /\ UNCHANGED <<cListing, cInput, cEntry, cOwners, cResult>>
    /\ UNCHANGED outsideChanged

\* getChangedPackagesFromChangedFiles, after bolt answered
FromChangedFiles ==
    /\ cpc = "resolving"
    /\ cOwners' = MappedOwners(cListing, cFiles)
    /\ cResult' = UniqueFrom(SelectSeq(MappedOwners(cListing, cFiles), isDefined), 1)
    /\ cpc' = "done"
    /\ UNCHANGED <<cListing, cInput, cEntry, cFiles>>
    /\ UNCHANGED outsideChanged

NextChanged ==
    \/ ChangedFilesSince
    \/ MandatoryFilter
    \/ FromChangedFiles

SpecChanged == InitChanged /\ [][NextChanged]_vars

(* Vocabulary of the properties of the changed packages: paths read as     *)
(* lists of segments.                                                      *)

RECURSIVE Segments(_)
Segments(path) ==
    IF path = << >> THEN << << >> >>
    ELSE LET rest == Segments(Tail(path))
         IN  IF <<Head(path)>> = sep
             THEN << << >> >> \o rest
             ELSE << <<Head(path)>> \o rest[1] >> \o Tail(rest)

LastSegment(path) == Segments(path)[Len(Segments(path))]

\* every segment of dir, in order, starts the segments of path, and path
\* goes on below dir
SegmentPrefix(dir, path) ==
    /\ Len(Segments(dir)) < Len(Segments(path))
    /\ SubSeq(Segments(path), 1, Len(Segments(dir))) = Segments(dir)

Listed == {cListing[k] : k \in DOMAIN cListing}

DirOf(name) == (CHOOSE pkg \in Listed : pkg.name = name).dir

PrefixPackages(path) == {pkg \in Listed : SegmentPrefix(pkg.dir, path)}

LongestPrefixPackage(path) ==
    CHOOSE pkg \in PrefixPackages(path) :
        \A other \in PrefixPackages(path) : Len(other.dir) <= Len(pkg.dir)

\* the files the owners were looked up for
KeptFiles == SelectSeq(cFiles, notRatchet)

\* C14 as stated: every file is attributed to the package with the longest
\* directory among those whose directory is a path prefix of it, and to
\* none when there is no such package, whatever the listing order.
C14_LongestDirectoryWins ==
    cpc = "done" =>
        \A i \in 1..Len(cOwners) :
            cOwners[i] = IF PrefixPackages(KeptFiles[i]) = {} THEN Undefined
                         ELSE LongestPrefixPackage(KeptFiles[i]).name

\* C15: a file is attributed to a package only if the segments of the
\* package directory start the segments of the file path; a file below
\* /p/a-b/ is never attributed to the package at /p/a.
C15_OwnerDirectoryIsSegmentPrefix ==
    cpc = "done" =>
        /\ \A i \in 1..Len(cOwners) :
              cOwners[i] # Undefined => SegmentPrefix(DirOf(cOwners[i]), KeptFiles[i])
        /\ \A k \in 1..Len(cResult) :
              \E i \in 1..Len(cFiles) : SegmentPrefix(DirOf(cResult[k]), cFiles[i])
        /\ (\A i \in 1..Len(cFiles) : SegmentPrefix(DirAB, cFiles[i])) =>
              \A k \in 1..Len(cResult) : cResult[k] # "a"

\* a file of package a-b resolved while package a is listed first
C15_Witness ==
    /\ cpc = "done"
    /\ cListing[1].name = "a"
    /\ \E i \in 1..Len(cOwners) :
          /\ startsWith(KeptFiles[i], DirA)
          /\ SegmentPrefix(DirAB, KeptFiles[i])
          /\ cOwners[i] = "a-b"
    /\ cResult = <<"a-b">>

\* the package the resolver attributes a file to
OwnerOf(path) == fileNameToPackage(cListing, path)

\* whether a file counts: every file, or every file but the ratchet files
Counted(path, ratchetToo) == ratchetToo \/ notRatchet(path)

FirstFileOf(name, ratchetToo) ==
    CHOOSE i \in 1..Len(cFiles) :
        /\ Counted(cFiles[i], ratchetToo) /\ OwnerOf(cFiles[i]) = name
        /\ \A j \in 1..(i - 1) :
              ~(Counted(cFiles[j], ratchetToo) /\ OwnerOf(cFiles[j]) = name)

\* the result lists the owners of the counted files, each once, in the
\* order of their first files
ListsOwnersOnce(ratchetToo) ==
    /\ {cResult[k] : k \in 1..Len(cResult)} =
          {OwnerOf(cFiles[i]) :
              i \in {j \in 1..Len(cFiles) : Counted(cFiles[j], ratchetToo)}}
             \ {Undefined}
    /\ \A k, l \in 1..Len(cResult) :
          k < l => FirstFileOf(cResult[k], ratchetToo) < FirstFileOf(cResult[l], ratchetToo)

\* C16 as stated: the result lists every package that owns an input file.
C16_EveryOwnerOnceInOrder ==
    cpc = "done" => ListsOwnersOnce(TRUE)

\* C16, amended: the result lists every package that owns an input file
\* whose name does not end with bundle-size-ratchet.json, each once, in the
\* order of first occurrence; files in no package add nothing.
C16_EveryOwnerOfANonRatchetFileOnceInOrder ==
    cpc = "done" => ListsOwnersOnce(FALSE)

\* three files, the first and the last of one package, the second of
\* another: two packages come back
C16_Witness ==
    /\ cpc = "done"
    /\ \E i, j, k \in 1..Len(cFiles) :
          /\ i < j /\ j < k
          /\ \A x \in {i, j, k} : notRatchet(cFiles[x]) /\ OwnerOf(cFiles[x]) # Undefined
          /\ OwnerOf(cFiles[i]) # OwnerOf(cFiles[j])
          /\ OwnerOf(cFiles[i]) = OwnerOf(cFiles[k])
          /\ cResult = <<OwnerOf(cFiles[i]), OwnerOf(cFiles[j])>>

Filtered ==
    cpc # "start" /\ cEntry = "getChangedPackagesWithMandatoryChangesetSinceCommit"

\* the filter let the file through
Kept(path) == \E j \in 1..Len(cFiles) : cFiles[j] = path

InsideAPackage(path) == PrefixPackages(path) # {}

\* C17 as stated: a file named package.json or tsconfig.json inside a
\* package passes the filter, in whatever directory of the package it is.
C17_PrivilegedNamesAlwaysCount ==
    Filtered =>
        \A i \in 1..Len(cInput) :
            (LastSegment(cInput[i]) \in definitelyNeedChangeset
                /\ InsideAPackage(cInput[i])) => Kept(cInput[i])

SrcName == SubSeq(SrcSegment, Len(sep) + 1, Len(SrcSegment) - Len(sep))

UnderSrc(path) ==
    \E pkg \in PrefixPackages(path) : SegmentPrefix(pkg.dir \o sep \o SrcName, path)

UnderTestsDir(path) ==
    \E k \in 1..(Len(Segments(path)) - 1) : Segments(path)[k] = TestsWord

Dot == <<".">>

\* *.test.<ext> or *.examples.<ext>, ext one of ts, tsx, js, jsx
HasTestFileName(path) ==
    \E w \in {ExamplesWord, TestWord}, e \in {TsWord, JsWord}, x \in {<< >>, XWord} :
        endsWith(LastSegment(path), Dot \o w \o Dot \o e \o x)

\* C18 as stated: of the files under src/ and not under a __tests__
\* directory, the filter drops exactly those with a test file name.
C18_OnlyTestFileNamesDropped ==
    Filtered =>
        \A i \in 1..Len(cInput) :
            (UnderSrc(cInput[i]) /\ ~UnderTestsDir(cInput[i])) =>
                (Kept(cInput[i]) <=> ~HasTestFileName(cInput[i]))

----------------------------------------------------------------------------
(* getTransitiveDependencies: the breadth-first walk over the dependency   *)
(* graph, one action per turn of its while loop.                           *)

MaxDepth == 2

DefaultDepth == -100

\* the depths a caller may pass, besides passing none
Depths == (0 - MaxDepth)..MaxDepth

Options == {[cwd |-> "."]} \cup {[cwd |-> ".", depth |-> d] : d \in Depths}

\* a dependency list: any set of packages, in workspace order
DependencyLists == {SelectSeq(PkgOrder, LAMBDA n : n \in S) : S \in SUBSET PkgNames}

\* bolt.Graph: a Map with an entry for some of the packages
DependencyGraphs ==
    UNION { [have -> DependencyLists] : have \in SUBSET PkgNames }

\* { cwd: process.cwd(), depth: -100, ...userOpts }
depth == IF "depth" \in DOMAIN userOpts THEN userOpts.depth ELSE DefaultDepth

\* the head of a turn: nodesUntilDepthIncrease -= 1 and, at 0, the next level
LevelEnds == nodesUntilDepthIncrease - 1 = 0

DepthInTurn == IF LevelEnds THEN currentDepth + 1 ELSE currentDepth

NodesInTurn == IF LevelEnds THEN Len(queue) ELSE nodesUntilDepthIncrease - 1

\* Faulty variant: the walk stops one level early.
DepthReached_OneEarly(current, limit) == current = limit

\* currentDepth === depth + 1
DepthReached(current, limit) == current = limit + 1

\* Faulty variant: a package already visited is visited again.
Has_Never(set, x) == FALSE

Has(set, x) == \E i \in 1..Len(set) : set[i] = x

\* !dependencies, for dependencies = depGraph.get(currentPkg)
NoDependencies(graph, pkg) == pkg \notin DOMAIN graph

\* visited.delete(pkgName); Array.from(visited)
Returned(set, root) == SelectSeq(set, LAMBDA n : n # root)

InitWalk ==
    /\ pkgName \in PkgNames
    /\ userOpts \in Options
    /\ depGraph \in DependencyGraphs
    /\ visited = << >>
    /\ queue = <<pkgName>>
    /\ nodesUntilDepthIncrease = 1
    /\ currentDepth = -1
    /\ expanded = << >>
    /\ walkResult = << >>
    /\ wpc = "loop"
    /\ UpdateIdle
    /\ GraphIdle
    /\ ChangedIdle
    /\ CheckIdle
    /\ WrapperIdle

\* the turn that finds the depth reached: break, then the return
LoopBreak ==
    /\ wpc = "loop"
    /\ queue # << >>
    /\ DepthReached(DepthInTurn, depth)
    /\ currentDepth' = DepthInTurn
    /\ nodesUntilDepthIncrease' = NodesInTurn
    /\ walkResult' = Returned(visited, pkgName)
    /\ wpc' = "returned"
    /\ UNCHANGED <<pkgName, userOpts, depGraph, visited, queue, expanded>>
    /\ UNCHANGED outsideWalk

\* the turn that shifts a package already visited: continue
LoopSkip ==
    /\ wpc = "loop"
    /\ queue # << >>
    /\ ~DepthReached(DepthInTurn, depth)
    /\ Has(visited, Head(queue))
    /\ currentDepth' = DepthInTurn
    /\ nodesUntilDepthIncrease' = NodesInTurn
    /\ queue' = Tail(queue)
    /\ UNCHANGED <<pkgName, userOpts, depGraph, visited, expanded, walkResult, wpc>>
    /\ UNCHANGED outsideWalk

\* the turn that visits a package and queues its dependencies
LoopExpand ==
    /\ wpc = "loop"
    /\ queue # << >>
    /\ ~DepthReached(DepthInTurn, depth)
    /\ ~Has(visited, Head(queue))
    /\ ~NoDependencies(depGraph, Head(queue))
    /\ currentDepth' = DepthInTurn
    /\ nodesUntilDepthIncrease' = NodesInTurn
    /\ visited' = Append(visited, Head(queue))
    /\ expanded' = Append(expanded, Head(queue))
    /\ queue' = Tail(queue) \o depGraph[Head(queue)]
    /\ UNCHANGED <<pkgName, userOpts, depGraph, walkResult, wpc>>
    /\ UNCHANGED outsideWalk

\* the turn that visits a package without an entry in the graph: throw
LoopThrow ==
    /\ wpc = "loop"
    /\ queue # << >>
    /\ ~DepthReached(DepthInTurn, depth)
    /\ ~Has(visited, Head(queue))
    /\ NoDependencies(depGraph, Head(queue))
    /\ currentDepth' = DepthInTurn
    /\ nodesUntilDepthIncrease' = NodesInTurn
    /\ visited' = Append(visited, Head(queue))
    /\ queue' = Tail(queue)
    /\ wpc' = "threw"
    /\ UNCHANGED <<pkgName, userOpts, depGraph, expanded, walkResult>>
    /\ UNCHANGED outsideWalk

\* the queue is empty: the loop ends and the function returns
LoopEnd ==
    /\ wpc = "loop"
    /\ queue = << >>
    /\ walkResult' = Returned(visited, pkgName)
    /\ wpc' = "returned"
    /\ UNCHANGED <<pkgName, userOpts, depGraph, visited, queue, nodesUntilDepthIncrease,
                   currentDepth, expanded>>
    /\ UNCHANGED outsideWalk

NextWalk ==
    \/ LoopBreak
    \/ LoopSkip
    \/ LoopExpand
    \/ LoopThrow
    \/ LoopEnd

SpecWalk == InitWalk /\ [][NextWalk]_vars

\* the packages within k edges of the root
RECURSIVE Within(_)
Within(k) ==
    IF k = 0 THEN {pkgName}
    ELSE LET near == Within(k - 1)
         IN  near \cup {n \in PkgNames :
                 \E m \in near : m \in DOMAIN depGraph /\ Has(depGraph[m], n)}

Reachable == Within(Cardinality(PkgNames))

ResultSet == {walkResult[i] : i \in 1..Len(walkResult)}

NoDuplicates(list) == \A i, j \in 1..Len(list) : i # j => list[i] # list[j]

\* C19 as stated: without a depth, or with a negative one, the walk that
\* returns has found every package reachable from the root.
C19_NegativeDepthIsUnbounded ==
    (wpc = "returned" /\ depth < 0) => ResultSet = Reachable \ {pkgName}

\* C20: with a depth d >= 0 and a graph with an entry for every package,
\* the result is the set of packages between 1 and d edges away from the
\* root, free of duplicates and without the root.
C20_ExactlyTheLevelsUpToDepth ==
    (wpc = "returned" /\ depth >= 0 /\ DOMAIN depGraph = PkgNames) =>
        /\ ResultSet = Within(depth) \ {pkgName}
        /\ NoDuplicates(walkResult)
        /\ ~Has(walkResult, pkgName)

\* a walk with a depth over a cycle through the root, which was queued
\* again, that left out a package beyond the depth
C20_Witness ==
    /\ wpc = "returned"
    /\ DOMAIN depGraph = PkgNames
    /\ "depth" \in DOMAIN userOpts
    /\ depth > 0
    /\ Within(depth) # Reachable
    /\ pkgName \in UNION {{depGraph[n][i] : i \in 1..Len(depGraph[n])} : n \in ResultSet}
    /\ Has(queue, pkgName)
    /\ walkResult # << >>

SpecWalkFair == SpecWalk /\ WF_vars(NextWalk)

WalkOver == wpc \in {"returned", "threw"}

\* the packages whose entry the walk needs: those within the depth, every
\* reachable one when the depth is below -1, and none at depth -1
Needed(rootAlways) ==
    IF depth >= 0 THEN Within(depth)
    ELSE IF depth = -1 /\ ~rootAlways THEN {}
    ELSE Reachable

\* C21 as stated: the walk throws exactly when the root or a package
\* within the depth has no entry in the graph.
C21_ThrowsIffRootOrPackageWithinDepthLacksEntry ==
    WalkOver => (wpc = "threw" <=> \E n \in Needed(TRUE) : n \notin DOMAIN depGraph)

\* C22: the walk ends, by a return or by the throw, on every graph, and
\* reads the dependencies of no package twice.
C22_TerminatesAndExpandsOnce ==
    /\ <>WalkOver
    /\ [](NoDuplicates(expanded) /\ NoDuplicates(visited))

\* a walk without depth that returned after it went round a cycle through
\* the root and over a package that depends on itself
C22_Witness ==
    /\ wpc = "returned"
    /\ "depth" \notin DOMAIN userOpts
    /\ DOMAIN depGraph = PkgNames
    /\ \E n \in PkgNames \ {pkgName} :
          /\ Has(depGraph[n], n)
          /\ Has(depGraph[n], pkgName)
          /\ Has(depGraph[pkgName], n)
    /\ Len(expanded) = Cardinality(PkgNames)

----------------------------------------------------------------------------
(* check-changesets: main() compares the packages changed since the target *)
(* branch with the releases of the release plan.  It yields while the      *)
(* reference to compare with is worked out and while the release plan and  *)
(* the changed packages are read; each of these may be rejected.           *)

MaxChangesets == 1

BRANCH_PREFIX_OPTOUTS ==
    { <<"n", "o", "-", "c", "h", "a", "n", "g", "e", "s", "e", "t", "/">>,
      <<"r", "e", "n", "o", "v", "a", "t", "e", "/", "n", "o", "-", "c", "h", "a", "n", "g", "e", "s", "e", "t", "/">>,
      <<"m", "e", "r", "g", "e", "-", "b", "r", "a", "n", "c", "h", "/">>,
      <<"r", "e", "l", "e", "a", "s", "e", "-", "c", "a", "n", "d", "i", "d", "a", "t", "e", "/">> }

BRANCH_EXACT_OPTOUTS == {<<"d", "e", "v", "e", "l", "o", "p">>, <<"m", "a", "s", "t", "e", "r">>}

privatePackageOptIn == {"@af/af-ops"}

\* the text after a prefix, and texts that only resemble an opt-out
BranchRest == <<"x">>

Branches ==
    {prefix \o BranchRest : prefix \in BRANCH_PREFIX_OPTOUTS}
    \cup BRANCH_EXACT_OPTOUTS
    \cup {name \o BranchRest : name \in BRANCH_EXACT_OPTOUTS}
    \cup {BranchRest \o sep \o prefix : prefix \in BRANCH_PREFIX_OPTOUTS}
    \cup {BranchRest}

CheckedNames == <<"a", "b", "@af/af-ops">>

CheckedNameSet == {CheckedNames[i] : i \in 1..Len(CheckedNames)}

\* the changed packages: some of the names, each private or not
ChangedPackageLists ==
    UNION { { [i \in 1..Len(names) |->
                 [name |-> names[i], config |-> [name |-> names[i], private |-> priv[names[i]]]]] :
              priv \in [S -> BOOLEAN] } :
            <<S, names>> \in {<<T, SelectSeq(CheckedNames, LAMBDA n : n \in T)>> :
                                T \in SUBSET CheckedNameSet} }

\* releasePlan.releases: some of the names, each with 0..MaxChangesets changesets
ReleaseLists ==
    UNION { { [i \in 1..Len(names) |->
                 [name |-> names[i], changesets |-> count[names[i]]]] :
              count \in [S -> 0..MaxChangesets] } :
            <<S, names>> \in {<<T, SelectSeq(CheckedNames, LAMBDA n : n \in T)>> :
                                T \in SUBSET CheckedNameSet} }

\* containsBranchPrefix of @af/build-utils/branchPrefixes
containsBranchPrefix(branch, prefixes) == \E prefix \in prefixes : startsWith(branch, prefix)

\* Faulty variant: the exact names are taken for prefixes too.
OptedOut_ExactAsPrefix(branch) ==
    containsBranchPrefix(branch, BRANCH_PREFIX_OPTOUTS \cup BRANCH_EXACT_OPTOUTS)

OptedOut(branch) ==
    \/ containsBranchPrefix(branch, BRANCH_PREFIX_OPTOUTS)
    \/ \E name \in BRANCH_EXACT_OPTOUTS : branch = name

\* Faulty variant: every private package is excluded.
isExcluded_AnyPrivate(pkg) == pkg.config.private

isExcluded(pkg) == pkg.config.private /\ pkg.config.name \notin privatePackageOptIn

packagesWithChangesets(releases) ==
    LET with == SelectSeq(releases, LAMBDA release : release.changesets # 0)
    IN  [i \in 1..Len(with) |-> with[i].name]

missingChangesets(releases, changed) ==
    LET missing == SelectSeq(changed, LAMBDA pkg :
                       /\ ~Has(packagesWithChangesets(releases), pkg.name)
                       /\ ~isExcluded(pkg))
    IN  [i \in 1..Len(missing) |-> missing[i].name]

CheckLine(level, text, names) == [level |-> level, text |-> text, names |-> names]

InitCheck ==
    /\ kBranch \in Branches
    /\ kReleases \in ReleaseLists
    /\ kChanged \in ChangedPackageLists
    /\ kpc = "sinceRef"
    /\ kExitCode = 0
    /\ kOut = << >>
    /\ UpdateIdle
    /\ GraphIdle
    /\ ChangedIdle
    /\ WalkIdle
    /\ WrapperIdle

\* sinceRef is worked out; then the escape hatch: log and process.exit(0),
\* or the release plan and the changed packages are asked for
SinceRef ==
    /\ kpc = "sinceRef"
    /\ IF OptedOut(kBranch)
       THEN /\ kOut' = Append(kOut, CheckLine("log", "Changesets escape-hatch detected", << >>))
            /\ kpc' = "exited"
       ELSE /\ kOut' = kOut
            /\ kpc' = "reading"
    /\ UNCHANGED <<kBranch, kReleases, kChanged, kExitCode>>
    /\ UNCHANGED outsideCheck

\* both answers are in: the comparison, then the throw of the message,
\* which main().catch prints before process.exit(1), or the plain end
Compare ==
    /\ kpc = "reading"
    /\ LET missing == missingChangesets(kReleases, kChanged)
       IN  IF Len(missing) > 0
           THEN /\ kOut' = Append(kOut, CheckLine("error", "missingChangesetsMessage", missing))
                /\ kExitCode' = 1
                /\ kpc' = "exited"
           ELSE /\ kOut' = kOut
                /\ kExitCode' = 0
                /\ kpc' = "ended"
    /\ UNCHANGED <<kBranch, kReleases, kChanged>>
    /\ UNCHANGED outsideCheck

\* an awaited call is rejected: main().catch prints the error, process.exit(1)
CheckRejected ==
    /\ kpc \in {"sinceRef", "reading"}
    /\ kOut' = Append(kOut, CheckLine("error", "rejection", << >>))
    /\ kExitCode' = 1
    /\ kpc' = "exited"
    /\ UNCHANGED <<kBranch, kReleases, kChanged>>
    /\ UNCHANGED outsideCheck

NextCheck ==
    \/ SinceRef
    \/ Compare
    \/ CheckRejected

SpecCheck == InitCheck /\ [][NextCheck]_vars

CheckOver == kpc \in {"exited", "ended"}

Printed(text) == {i \in 1..Len(kOut) : kOut[i].text = text}

\* an awaited call of this run was rejected
RejectedRun == Printed("rejection") # {}

\* the changed packages that lack a changeset: no release of the plan with
\* at least one changeset bears their name, and they are not private, or
\* are private and on the opt-in list
LackingChangeset ==
    { kChanged[i].name : i \in
        { j \in 1..Len(kChanged) :
            /\ ~\E r \in 1..Len(kReleases) :
                  kReleases[r].name = kChanged[j].name /\ kReleases[r].changesets >= 1
            /\ ~(kChanged[j].config.private
                    /\ kChanged[j].name \notin privatePackageOptIn) } }

OnlyLine(text) == Len(kOut) = 1 /\ kOut[1].text = text

\* C23: a run that took no escape hatch and had its calls answered ends
\* with the missing-changesets message and exit code 1 exactly when some
\* changed package lacks a changeset, and the message names exactly those
\* packages, each once; otherwise it ends with exit code 0 and prints
\* nothing.  The message is printed in no other run.
C23_FailsExactlyForPackagesLackingAChangeset ==
    /\ (CheckOver /\ Printed("Changesets escape-hatch detected") = {} /\ ~RejectedRun) =>
          IF LackingChangeset # {}
          THEN /\ kpc = "exited"
               /\ kExitCode = 1
               /\ OnlyLine("missingChangesetsMessage")
               /\ {kOut[1].names[i] : i \in 1..Len(kOut[1].names)} = LackingChangeset
               /\ NoDuplicates(kOut[1].names)
          ELSE /\ kpc = "ended"
               /\ kExitCode = 0
               /\ kOut = << >>
    /\ Printed("missingChangesetsMessage") # {} =>
          /\ LackingChangeset # {}
          /\ kExitCode = 1
          /\ ~RejectedRun

\* a failed run that names the private package on the opt-in list, and
\* neither the other private package nor the package with a changeset
C23_Witness ==
    /\ kpc = "exited"
    /\ kExitCode = 1
    /\ Len(kChanged) = Cardinality(CheckedNameSet)
    /\ \A i \in 1..Len(kChanged) :
          kChanged[i].config.private <=> kChanged[i].name # "b"
    /\ \E r \in 1..Len(kReleases) : kReleases[r].name = "b" /\ kReleases[r].changesets >= 1
    /\ \E r \in 1..Len(kReleases) : kReleases[r].name = "a" /\ kReleases[r].changesets = 0
    /\ OnlyLine("missingChangesetsMessage")
    /\ kOut[1].names = <<"@af/af-ops">>

\* the branch names the claim opts out
EscapeBranch ==
    \/ \E prefix \in BRANCH_PREFIX_OPTOUTS :
          Len(kBranch) >= Len(prefix) /\ \A i \in 1..Len(prefix) : kBranch[i] = prefix[i]
    \/ kBranch \in BRANCH_EXACT_OPTOUTS

MaxArgs == 2
MaxAsks == 2

addWord == <<"a", "d", "d">>
versionWord == <<"v", "e", "r", "s", "i", "o", "n">>
statusWord == <<"s", "t", "a", "t", "u", "s">>
emptyFlag == <<"-", "-", "e", "m", "p", "t", "y">>
noneFlag == <<"-", "-", "n", "o", "n", "e">>
sinceFlag == <<"-", "-", "s", "i", "n", "c", "e">>
masterName == <<"m", "a", "s", "t", "e", "r">>
developName == <<"d", "e", "v", "e", "l", "o", "p">>

originMaster == "origin/master"
originDevelop == "origin/develop"

EMPTY_CHANGESET_WARNING == "EMPTY_CHANGESET_WARNING"

Null == "null"

\* `--since=${baseBranch}`
SinceArg(baseBranch) == sinceFlag \o <<"=">> \o baseBranch

ArgUniverse ==
    {addWord, versionWord, statusWord, emptyFlag, noneFlag, SinceArg(developName)}

ArgLists == UNION {[1..n -> ArgUniverse] : n \in 0..MaxArgs}

BaseBranches == {masterName, developName}

\* what the package question can answer: changed and unchanged names alike
Selections == {<< >>, <<"a">>, <<"b">>, <<"a", "b">>}

\* Lines the changeset command prints.
desiredTrueLine == <<"Is", "this", "your", "desired", "changeset", "true">>
desiredFalseLine == <<"Is", "this", "your", "desired", "changeset", "false">>
cancelledLine == <<"Cancelled...">>
committedLine == <<"Changeset", "added", "and", "committed">>
addedLine == <<"Changeset", "added!">>
changesetPath == "/repo/.changeset/x.md"
pathLine == <<"info", changesetPath>>

Stdouts ==
    { << >>,
      <<desiredTrueLine, committedLine, pathLine>>,
      <<desiredTrueLine, addedLine, pathLine>>,
      <<desiredTrueLine, committedLine>>,
      <<desiredTrueLine, addedLine>>,
      <<desiredFalseLine>>,
      <<cancelledLine>>,
      <<desiredFalseLine, pathLine>> }

\* Contents of the changeset file the command leaves behind.
frontMatterLine == <<"---">>
summaryLine == <<"summary">>

ChangesetFiles ==
    { <<frontMatterLine, <<"'a':", "minor">>, frontMatterLine, << >>, summaryLine>>,
      <<frontMatterLine, <<"'a':", "minor">>, frontMatterLine, summaryLine, <<"more">> >>,
      <<frontMatterLine, <<"'a':", "minor">>, frontMatterLine, << >> >>,
      <<frontMatterLine, summaryLine>>,
      << >> }

NonZeroCodes == {1, 2}

includes(list, x) == \E i \in 1..Len(list) : list[i] = x

\* line.includes(phrase), on words
lineIncludes(line, phrase) == \E i \in 1..Len(line) : OccursAt(line, phrase, i)

isAddCmd(a) == Len(a) = 0 \/ a[1] = addWord

isStatusCmd(a) == Len(a) > 0 /\ a[1] = statusWord

addBaseBranchSinceFlag_Always(a, baseBranch) == Append(a, SinceArg(baseBranch))

addBaseBranchSinceFlag(a, baseBranch) ==
    IF \E i \in 1..Len(a) : startsWith(a[i], sinceFlag)
    THEN a
    ELSE Append(a, SinceArg(baseBranch))

\* /\/\.changeset\//.test(line)
NamesChangesetFile(line) == includes(line, changesetPath)

getChangesetFilepath(lines) ==
    IF \E i \in 1..Len(lines) : NamesChangesetFile(lines[i])
    THEN LET first == CHOOSE i \in 1..Len(lines) :
                          /\ NamesChangesetFile(lines[i])
                          /\ \A j \in 1..(i - 1) : ~NamesChangesetFile(lines[j])
         IN  lines[first][Len(lines[first])]
    ELSE Null

didChangesetCommit(lines) ==
    \E i \in 1..Len(lines) : lineIncludes(lines[i], committedLine)

didChangesetCancel(lines) ==
    \E i \in 1..Len(lines) :
        \/ lineIncludes(lines[i], cancelledLine)
        \/ /\ lineIncludes(lines[i], <<"Is", "this", "your", "desired", "changeset">>)
           /\ lineIncludes(lines[i], <<"false">>)

parseChangesetOutput(stdout) ==
    [filepath  |-> getChangesetFilepath(stdout),
     committed |-> didChangesetCommit(stdout),
     cancelled |-> didChangesetCancel(stdout)]

\* 0 stands for the -1 of the code: positions here count from 1
getSummaryLineIdx(lines) ==
    LET ends == {i \in 2..Len(lines) : lines[i] = frontMatterLine}
    IN  IF ends = {}
        THEN 0
        ELSE LET frontMatterEndIdx == CHOOSE i \in ends : \A j \in ends : i <= j
                 found == {i \in 1..Len(lines) : i > frontMatterEndIdx /\ lines[i] # << >>}
             IN  IF found = {} THEN 0 ELSE CHOOSE i \in found : \A j \in found : i <= j

\* `[${tag}] `
TagPrefix(tag) == <<"[", tag, "]">>

\* lines[summaryLineIdx] = `[${tag}] ${lines[summaryLineIdx]}`
Tagged(lines, tag) ==
    LET summaryLineIdx == getSummaryLineIdx(lines)
    IN  [lines EXCEPT ![summaryLineIdx] = TagPrefix(tag) \o @]

NoneReleases_FirstOnly(selection) ==
    [i \in 1..1 |-> [name |-> selection[i], type |-> "none"]]

NoneReleases(selection) ==
    [i \in 1..Len(selection) |-> [name |-> selection[i], type |-> "none"]]

IsUx_WhateverTheAnswer(payload) == "isUx" \in DOMAIN payload.answers

IsUx(payload) == "isUx" \in DOMAIN payload.answers /\ payload.answers.isUx

Effect(kind, detail) == [kind |-> kind, detail |-> detail]

Asked(question, answer) ==
    Effect("ask", [question |-> question, answer |-> answer])

Asks(question) ==
    Cardinality({i \in 1..Len(effects) :
                    effects[i].kind = "ask" /\ effects[i].detail.question = question})

InitWrapper ==
    /\ args \in ArgLists
    /\ gitBaseBranch \in BaseBranches
    /\ changesetConfig = originDevelop
    /\ prePayload = << >>
    /\ nonePackages = << >>
    /\ changesetResult = << >>
    /\ changesetFile = << >>
    /\ effects = << >>
    /\ exitCode = 0
    /\ mpc = "handleExceptionArgs"
    /\ UpdateIdle
    /\ GraphIdle
    /\ ChangedIdle
    /\ WalkIdle
    /\ CheckIdle

\* handleExceptionArgs up to its first question, or all of it without --none
HandleExceptionArgs ==
    /\ mpc = "handleExceptionArgs"
    /\ effects' = IF includes(args, emptyFlag)
                  THEN Append(effects, Effect("console.error", EMPTY_CHANGESET_WARNING))
                  ELSE effects
    /\ mpc' = IF includes(args, noneFlag) THEN "askNonePackages" ELSE "pre"
    /\ UNCHANGED <<args, gitBaseBranch, changesetConfig, prePayload, nonePackages,
                   changesetResult, changesetFile, exitCode>>
    /\ UNCHANGED outsideWrapper

\* one answer to the package question, and the loop's test of it
AskNonePackages ==
    /\ mpc = "askNonePackages"
    /\ \E selection \in Selections :
        /\ Len(selection) = 0 => Asks("nonePackages") < MaxAsks
        /\ nonePackages' = selection
        /\ IF Len(selection) = 0
           THEN /\ effects' = effects \o
                       <<Asked("nonePackages", selection),
                         Effect("console.error", "You must select at least one package")>>
                /\ mpc' = "askNonePackages"
           ELSE /\ effects' = Append(effects, Asked("nonePackages", selection))
                /\ mpc' = "writeNoneChangeset"
    /\ UNCHANGED <<args, gitBaseBranch, changesetConfig, prePayload,
                   changesetResult, changesetFile, exitCode>>
    /\ UNCHANGED outsideWrapper

WriteNoneChangeset ==
    /\ mpc = "writeNoneChangeset"
    /\ effects' = Append(effects, Effect("writeChangeset", NoneReleases(nonePackages)))
    /\ mpc' = "commitNoneChangeset"
    /\ UNCHANGED <<args, gitBaseBranch, changesetConfig, prePayload, nonePackages,
                   changesetResult, changesetFile, exitCode>>
    /\ UNCHANGED outsideWrapper

CommitNoneChangeset ==
    /\ mpc = "commitNoneChangeset"
    /\ effects' = effects \o
           <<Effect("git", "add"),
             Effect("git", "commit"),
             Effect("console.log", "None Changeset added and committed")>>
    /\ mpc' = "returned"
    /\ UNCHANGED <<args, gitBaseBranch, changesetConfig, prePayload, nonePackages,
                   changesetResult, changesetFile, exitCode>>
    /\ UNCHANGED outsideWrapper

\* pre() up to askQuestions, or all of it for another command
Pre ==
    /\ mpc = "pre"
    /\ prePayload' =
           [answers       |-> << >>,
            newArgs       |-> IF isStatusCmd(args)
                              THEN addBaseBranchSinceFlag(args, gitBaseBranch)
                              ELSE args,
            configChanged |-> FALSE]
    /\ mpc' = IF isAddCmd(args) THEN "askQuestions" ELSE "spawn"
    /\ UNCHANGED <<args, gitBaseBranch, changesetConfig, nonePackages,
                   changesetResult, changesetFile, effects, exitCode>>
    /\ UNCHANGED outsideWrapper

AskQuestions ==
    /\ mpc = "askQuestions"
    /\ \E isUx \in BOOLEAN :
        /\ prePayload' = [prePayload EXCEPT !.answers = [isUx |-> isUx]]
        /\ effects' = effects \o <<Asked("isUx", isUx)>> \o
               (IF isUx THEN <<Effect("console.log", "NOTE")>> ELSE << >>)
    /\ mpc' = "updateChangesetBaseBranch"
    /\ UNCHANGED <<args, gitBaseBranch, changesetConfig, nonePackages,
                   changesetResult, changesetFile, exitCode>>
    /\ UNCHANGED outsideWrapper

UpdateChangesetBaseBranch ==
    /\ mpc = "updateChangesetBaseBranch"
    /\ IF gitBaseBranch # masterName
       THEN /\ prePayload' = [prePayload EXCEPT !.configChanged = FALSE]
            /\ UNCHANGED <<changesetConfig, effects>>
       ELSE /\ changesetConfig' = originMaster
            /\ effects' = Append(effects, Effect("updateChangesetConfig", originMaster))
            /\ prePayload' = [prePayload EXCEPT !.configChanged = TRUE]
    /\ mpc' = "spawn"
    /\ UNCHANGED <<args, gitBaseBranch, nonePackages,
                   changesetResult, changesetFile, exitCode>>
    /\ UNCHANGED outsideWrapper

SpawnChangeset ==
    /\ mpc = "spawn"
    /\ effects' = Append(effects, Effect("spawn", prePayload.newArgs))
    /\ mpc' = "changesetProcess"
    /\ UNCHANGED <<args, gitBaseBranch, changesetConfig, prePayload, nonePackages,
                   changesetResult, changesetFile, exitCode>>
    /\ UNCHANGED outsideWrapper

\* the process resolves: exit code 0
ChangesetResolves ==
    /\ mpc = "changesetProcess"
    /\ \E stdout \in Stdouts, file \in ChangesetFiles :
        /\ changesetResult' = [code |-> 0, stdout |-> stdout]
        /\ changesetFile' = IF getChangesetFilepath(stdout) = Null THEN << >> ELSE file
    /\ mpc' = "revert"
    /\ UNCHANGED <<args, gitBaseBranch, changesetConfig, prePayload, nonePackages,
                   effects, exitCode>>
    /\ UNCHANGED outsideWrapper

\* the process rejects with a result that has an exit code
ChangesetExitsNonZero ==
    /\ mpc = "changesetProcess"
    /\ \E code \in NonZeroCodes :
        changesetResult' = [code |-> code, stdout |-> << >>]
    /\ mpc' = "revert"
    /\ UNCHANGED <<args, gitBaseBranch, changesetConfig, prePayload, nonePackages,
                   changesetFile, effects, exitCode>>
    /\ UNCHANGED outsideWrapper

\* the process rejects with an error that has no code: main rethrows
ChangesetFailsWithoutCode ==
    /\ mpc = "changesetProcess"
    /\ effects' = Append(effects, Effect("console.error", "error"))
    /\ exitCode' = 1
    /\ mpc' = "exited"
    /\ UNCHANGED <<args, gitBaseBranch, changesetConfig, prePayload, nonePackages,
                   changesetResult, changesetFile>>
    /\ UNCHANGED outsideWrapper

\* main from the revert to the end, or to the await inside post
RevertAndPost ==
    /\ mpc = "revert"
    /\ changesetConfig' = IF prePayload.configChanged THEN originDevelop ELSE changesetConfig
    /\ LET reverted == IF prePayload.configChanged
                       THEN <<Effect("updateChangesetConfig", originDevelop)>>
                       ELSE << >>
           output == parseChangesetOutput(changesetResult.stdout)
       IN  IF changesetResult.code # 0
           THEN /\ effects' = effects \o reverted
                /\ exitCode' = changesetResult.code
                /\ mpc' = "exited"
           ELSE IF output.cancelled
           THEN /\ effects' = effects \o reverted
                /\ exitCode' = 0
                /\ mpc' = "exited"
           ELSE IF ~isAddCmd(args) \/ ~IsUx(prePayload)
           THEN /\ effects' = effects \o reverted
                /\ exitCode' = 0
                /\ mpc' = "returned"
           ELSE IF output.filepath = Null
           THEN /\ effects' = effects \o reverted \o
                       <<Effect("console.log", "Updating changeset with ux tag..."),
                         Effect("console.error", "error")>>
                /\ exitCode' = 1
                /\ mpc' = "exited"
           ELSE /\ effects' = effects \o reverted \o
                       <<Effect("console.log", "Updating changeset with ux tag...")>>
                /\ exitCode' = 0
                /\ mpc' = "addChangesetTag"
    /\ UNCHANGED <<args, gitBaseBranch, prePayload, nonePackages,
                   changesetResult, changesetFile>>
    /\ UNCHANGED outsideWrapper

AddChangesetTag ==
    /\ mpc = "addChangesetTag"
    /\ IF getSummaryLineIdx(changesetFile) = 0
       THEN /\ effects' = effects \o
                   <<Effect("console.error", "Failed to add [ux] tag to changeset"),
                     Effect("console.error", "error")>>
            /\ exitCode' = 1
            /\ mpc' = "exited"
            /\ UNCHANGED changesetFile
       ELSE /\ changesetFile' = Tagged(changesetFile, "ux")
            /\ IF parseChangesetOutput(changesetResult.stdout).committed
               THEN /\ effects' = Append(effects, Effect("writeFile", changesetPath))
                    /\ mpc' = "commitChangesetUpdate"
               ELSE /\ effects' = effects \o
                           <<Effect("writeFile", changesetPath),
                             Effect("console.log", "Done")>>
                    /\ mpc' = "returned"
            /\ UNCHANGED exitCode
    /\ UNCHANGED <<args, gitBaseBranch, changesetConfig, prePayload, nonePackages,
                   changesetResult>>
    /\ UNCHANGED outsideWrapper

CommitChangesetUpdate ==
    /\ mpc = "commitChangesetUpdate"
    /\ effects' = effects \o
           <<Effect("git", "add"),
             Effect("git", "commit --amend"),
             Effect("console.log", "Done")>>
    /\ mpc' = "returned"
    /\ UNCHANGED <<args, gitBaseBranch, changesetConfig, prePayload, nonePackages,
                   changesetResult, changesetFile, exitCode>>
    /\ UNCHANGED outsideWrapper

NextWrapper ==
    \/ HandleExceptionArgs
    \/ AskNonePackages
    \/ WriteNoneChangeset
    \/ CommitNoneChangeset
    \/ Pre
    \/ AskQuestions
    \/ UpdateChangesetBaseBranch
    \/ SpawnChangeset
    \/ ChangesetResolves
    \/ ChangesetExitsNonZero
    \/ ChangesetFailsWithoutCode
    \/ RevertAndPost
    \/ AddChangesetTag
    \/ CommitChangesetUpdate

SpecWrapper == InitWrapper /\ [][NextWrapper]_vars

(***************************************************************************)
(* Vocabulary of the statements about the wrapper.                         *)
(***************************************************************************)

WrapperOver == mpc \in {"returned", "exited"}

Did(kind) == \E i \in 1..Len(effects) : effects[i].kind = kind

DidGit(command) ==
    \E i \in 1..Len(effects) : effects[i].kind = "git" /\ effects[i].detail = command

WroteConfig(baseBranch) ==
    \E i \in 1..Len(effects) :
        effects[i].kind = "updateChangesetConfig" /\ effects[i].detail = baseBranch

AskedUx == Asks("isUx") > 0

AnsweredYes ==
    \E i \in 1..Len(effects) :
        /\ effects[i].kind = "ask"
        /\ effects[i].detail.question = "isUx"
        /\ effects[i].detail.answer

NoneRun == \E i \in 1..Len(args) : args[i] = noneFlag

AddRun == Len(args) = 0 \/ args[1] = addWord

\* the changeset process ended with exit code 0 and was not cancelled
CompletedAdd ==
    /\ AddRun
    /\ "code" \in DOMAIN changesetResult
    /\ changesetResult.code = 0
    /\ ~didChangesetCancel(changesetResult.stdout)

\* C25: a config changed to origin/master is back at origin/develop whenever
\* the wrapper has finished, however the changeset process ended.
C25_BaseBranchRevertedOnEveryFinish ==
    (WrapperOver /\ WroteConfig(originMaster)) => changesetConfig = originDevelop

\* what the wrapper did after the warning about --empty, if it printed one
AfterWarning ==
    IF Len(effects) > 0 /\ effects[1] = Effect("console.error", EMPTY_CHANGESET_WARNING)
    THEN Tail(effects)
    ELSE effects

\* the number of times the package question was answered with nothing
EmptyAnswers ==
    Cardinality({i \in 1..Len(effects) :
                    /\ effects[i].kind = "ask"
                    /\ effects[i].detail.question = "nonePackages"
                    /\ Len(effects[i].detail.answer) = 0})

\* C26: with --none among the arguments the wrapper never asks the UX
\* question, never writes the config and never spawns the changeset command;
\* when it has returned it has asked the package question until the answer
\* was not empty, then written one changeset that lists exactly the selected
\* packages with type none, then committed it, in this order.
C26_NoneFlowWritesAndCommitsOneNoneChangeset ==
    NoneRun =>
        /\ ~AskedUx
        /\ ~Did("updateChangesetConfig")
        /\ changesetConfig = originDevelop
        /\ ~Did("spawn")
        /\ WrapperOver =>
            LET done == AfterWarning
                k == EmptyAnswers
            IN  /\ mpc = "returned"
                /\ Len(done) = 2 * k + 5
                /\ \A j \in 1..k :
                    /\ done[2 * j - 1] = Asked("nonePackages", << >>)
                    /\ done[2 * j].kind = "console.error"
                /\ done[2 * k + 1].kind = "ask"
                /\ done[2 * k + 1].detail.question = "nonePackages"
                /\ LET selection == done[2 * k + 1].detail.answer
                       written == done[2 * k + 2]
                   IN  /\ Len(selection) > 0
                       /\ written.kind = "writeChangeset"
                       /\ Len(written.detail) = Len(selection)
                       /\ \A n \in 1..Len(selection) :
                           written.detail[n] = [name |-> selection[n], type |-> "none"]
                /\ done[2 * k + 3] = Effect("git", "add")
                /\ done[2 * k + 4] = Effect("git", "commit")
                /\ done[2 * k + 5].kind = "console.log"

C26_Witness ==
    /\ NoneRun
    /\ mpc = "returned"
    /\ EmptyAnswers > 0
    /\ Len(nonePackages) > 1
    /\ DidGit("commit")

SummaryPrefixed ==
    \E i \in 1..Len(changesetFile) : startsWith(changesetFile[i], TagPrefix("ux"))

OutputNamesFile == \E i \in 1..Len(changesetResult.stdout) :
                       \E w \in 1..Len(changesetResult.stdout[i]) :
                           changesetResult.stdout[i][w] = changesetPath

ReportedCommit == \E i \in 1..Len(changesetResult.stdout) :
                      lineIncludes(changesetResult.stdout[i], committedLine)

\* a front matter end after the first line and a line with text after it
HasSummary ==
    \E e \in 2..Len(changesetFile) :
        /\ changesetFile[e] = frontMatterLine
        /\ \E i \in (e + 1)..Len(changesetFile) : changesetFile[i] # << >>

\* C27 as stated: the summary is prefixed exactly when the answer was yes.
C27_PrefixedIffAnsweredYes ==
    (CompletedAdd /\ WrapperOver) =>
        /\ SummaryPrefixed <=> AnsweredYes
        /\ DidGit("commit --amend") => (SummaryPrefixed /\ ReportedCommit)
        /\ ~ReportedCommit => ~Did("git")

\* C27: for an add command that the changeset process completes with exit
\* code 0 and without cancellation, the summary is prefixed with the ux tag
\* exactly when the answer was yes, the output names the changeset file and
\* that file has a summary after its front matter; a yes without them ends
\* the wrapper with exit code 1 and no commit.  The last commit is amended
\* only when the tag was added and the command reported its commit, and
\* without that report the wrapper makes no git call.
C27_PrefixedIffAnsweredYesAndSummaryFound ==
    (CompletedAdd /\ WrapperOver) =>
        /\ SummaryPrefixed <=> (AnsweredYes /\ OutputNamesFile /\ HasSummary)
        /\ (AnsweredYes /\ ~(OutputNamesFile /\ HasSummary)) =>
               (mpc = "exited" /\ exitCode = 1 /\ ~Did("git"))
        /\ DidGit("commit --amend") => (SummaryPrefixed /\ ReportedCommit)
        /\ ~ReportedCommit => ~Did("git")

C27_Witness ==
    /\ CompletedAdd
    /\ mpc = "returned"
    /\ AnsweredYes
    /\ SummaryPrefixed
    /\ DidGit("commit --amend")

SinceArgPresent == \E i \in 1..Len(args) : startsWith(args[i], sinceFlag)

\* the arguments the changeset command is to be spawned with
ExpectedArgs ==
    IF Len(args) > 0 /\ args[1] = statusWord /\ ~SinceArgPresent
    THEN args \o <<SinceArg(gitBaseBranch)>>
    ELSE args

SpawnedOnceWith(newArgs) ==
    /\ Cardinality({i \in 1..Len(effects) : effects[i].kind = "spawn"}) = 1
    /\ \E i \in 1..Len(effects) :
        effects[i].kind = "spawn" /\ effects[i].detail = newArgs

\* C28 as stated: every invocation other than the add command asks nothing,
\* leaves the config alone and spawns the changeset command.
C28_EveryOtherInvocationSpawns ==
    /\ (AskedUx \/ Did("updateChangesetConfig")) => AddRun
    /\ (~AddRun /\ WrapperOver) =>
        /\ ~Did("ask")
        /\ changesetConfig = originDevelop
        /\ SpawnedOnceWith(ExpectedArgs)

\* C28: the UX question and the config change happen only for the add
\* command; every other invocation without --none asks nothing, leaves the
\* config alone and spawns the changeset command, for status with
\* --since=<base branch> appended unless an argument starts with --since,
\* otherwise with the arguments unchanged.
C28_EveryOtherInvocationWithoutNoneSpawns ==
    /\ (AskedUx \/ Did("updateChangesetConfig")) => AddRun
    /\ (~AddRun /\ ~NoneRun /\ WrapperOver) =>
        /\ ~Did("ask")
        /\ ~Did("updateChangesetConfig")
        /\ changesetConfig = originDevelop
        /\ SpawnedOnceWith(ExpectedArgs)

C28_Witness ==
    /\ WrapperOver
    /\ Len(args) > 1
    /\ args[1] = statusWord
    /\ ~SinceArgPresent
    /\ ~NoneRun
    /\ gitBaseBranch = masterName
    /\ Did("spawn")

====
